---------------------------- MODULE Spec2Model ----------------------------
(***************************************************************************)
(* A model of the browser-side save-file parser of dno-stats                *)
(* (src/save-parser.js): the primitive codec, the byte scanner, the class  *)
(* finder, the record decoders and parseSaveFiles.                          *)
(*                                                                         *)
(* Conventions.                                                            *)
(*  - A Uint8Array is a sequence of bytes 0..255; JavaScript's 0-based     *)
(*    index i is element i+1 of the sequence.                              *)
(*  - A read outside the array yields JavaScript's undefined, modelled by  *)
(*    the sentinel `undefined`, which is no byte.                          *)
(*  - A JavaScript string is the sequence of its code points.              *)
(*  - A call either returns or throws; a throw is the record Throw(m).     *)
(*  - TLC's integers are 32 bits wide: signed 32-bit values (the results   *)
(*    of JavaScript's bitwise operators, getInt32) are integers, unsigned  *)
(*    32-bit values (getUint32) are pairs of 16-bit limbs <<hi, lo>>.      *)
(***************************************************************************)
EXTENDS Integers, Sequences, FiniteSets, TLC

VARIABLES
    cData,      \* harnesses: the buffer a function is applied to
    cOffset,    \* harnesses: the offset it is applied at
    cValue,     \* harnesses: what the buffer encodes (<<v>>), or <<>>
    cOp,        \* harnesses: the function applied ("" before any)
    cArg,       \* harnesses: its other arguments (the primitive subtype of
                \* readPrimitive; class name, fields and object id of the finders)
    cRet,       \* harnesses: what the function returned or threw
    saveBuffer, \* the bytes saveFile.arrayBuffer() was fulfilled with, or null
    datBuffer,  \* the bytes datFile.arrayBuffer() was fulfilled with, or null
    saveRead,   \* state of the promise saveFile.arrayBuffer()
    datRead,    \* state of the promise datFile.arrayBuffer()
    readOrder,  \* the reads that have settled, in the order they settled
    pc,         \* where parseSaveFiles stands
    locals,     \* header, enemiesKilled, ..., waves: null or a value
    errors,     \* the errors array
    ran,        \* the extraction functions called so far, in order
    resolved    \* what parseSaveFiles resolved with, or null

codecVars == <<cData, cOffset, cValue, cOp, cArg, cRet>>
mainVars == <<saveBuffer, datBuffer, saveRead, datRead, readOrder, pc, locals, errors, ran, resolved>>
vars == <<codecVars, mainVars>>

-----------------------------------------------------------------------------
(* Constants of the source.                                                *)

TAG_PRIMITIVE == 0
TAG_STRING == 1
TAG_SYSTEM_CLASS == 3
TAG_CLASS == 4
TAG_PRIMITIVE_ARRAY == 7

PRIM_BOOLEAN == 1
PRIM_BYTE == 2
PRIM_INT16 == 7
PRIM_INT32 == 8
PRIM_INT64 == 9
PRIM_SINGLE == 11
PRIM_DOUBLE == 6

KnownPrimTypes ==
    {PRIM_BOOLEAN, PRIM_BYTE, PRIM_INT16, PRIM_INT32, PRIM_INT64, PRIM_SINGLE, PRIM_DOUBLE}

-----------------------------------------------------------------------------
(* JavaScript values and operators the source relies on.                   *)

\* data[i] outside 0..length-1 is undefined.
undefined == -1

Max(a, b) == IF a >= b THEN a ELSE b

\* data[offset] on a Uint8Array.
At(data, offset) ==
    IF offset >= 0 /\ offset < Len(data) THEN data[offset + 1] ELSE undefined

\* b & mask for a byte (or undefined, which ToInt32 turns into 0) and a mask
\* that is 0x7F or 0x80.
AndMask(b, mask) ==
    IF b = undefined THEN 0
    ELSE IF mask = 127 THEN b % 128
    ELSE IF mask = 128 THEN (b \div 128) * 128
    ELSE 0

Pow2(n) == IF n = 0 THEN 1 ELSE 2 ^ n

\* x << s on a value x in 0..127: the shift count is taken modulo 32 and the
\* result is the low 32 bits read as a signed integer.
Shl32(x, s) ==
    LET k    == s % 32
        keep == 32 - k
        u    == IF k = 0 THEN x ELSE x % Pow2(keep)
    IN  IF k = 0 THEN x
        ELSE IF u >= Pow2(keep - 1) THEN (u - Pow2(keep - 1) - Pow2(keep - 1)) * Pow2(k)
        ELSE u * Pow2(k)

\* a | b on signed 32-bit integers (two's complement, bit by bit).
RECURSIVE Or32(_, _)
Or32(a, b) ==
    IF a = 0 THEN b
    ELSE IF b = 0 THEN a
    ELSE IF a = -1 \/ b = -1 THEN -1
    ELSE (IF a % 2 = 1 \/ b % 2 = 1 THEN 1 ELSE 0) + 2 * Or32(a \div 2, b \div 2)

\* A thrown exception, and a normal return of a { value, offset } pair.
Throw(m) == [threw |-> TRUE, message |-> m]
Return(v, o) == [threw |-> FALSE, value |-> v, offset |-> o]

\* The message of the RangeError a DataView accessor throws out of bounds.
RangeErrorMessage == "Offset is outside the bounds of the DataView"

\* data.subarray(begin, end): both ends are clamped to the array, a negative
\* end counts from the end of the array.
RelIndex(x, len) == IF x < 0 THEN Max(len + x, 0) ELSE IF x <= len THEN x ELSE len

subarray(data, begin, end) ==
    LET b == RelIndex(begin, Len(data))
        e == RelIndex(end, Len(data))
    IN  IF e <= b THEN <<>> ELSE SubSeq(data, b + 1, e)

\* new TextDecoder().decode(bytes): UTF-8. An ASCII byte is its own code
\* point; a lead byte 0xC2..0xDF followed by a continuation byte 0x80..0xBF
\* decodes with it to one code point; every other byte decodes to U+FFFD
\* (the buffers of this model hold no lead byte 0xE0..0xF4 that is followed
\* by a continuation byte, so a longer sequence never starts).
REPLACEMENT_CHARACTER == 65533

IsLeadOfTwo(bytes, i) == i >= 1 /\ i <= Len(bytes) /\ bytes[i] >= 194 /\ bytes[i] <= 223
IsContinuation(bytes, i) == i >= 1 /\ i <= Len(bytes) /\ bytes[i] >= 128 /\ bytes[i] <= 191

\* The code point that starts at byte i, or `undefined` when byte i is the
\* continuation byte of the sequence that starts at byte i - 1.
CodePointAt(bytes, i) ==
    IF bytes[i] < 128 THEN bytes[i]
    ELSE IF IsLeadOfTwo(bytes, i) /\ IsContinuation(bytes, i + 1)
         THEN (bytes[i] - 192) * 64 + (bytes[i + 1] - 128)
    ELSE IF IsContinuation(bytes, i) /\ IsLeadOfTwo(bytes, i - 1) THEN undefined
    ELSE REPLACEMENT_CHARACTER

TextDecoderDecode(bytes) ==
    SelectSeq([i \in 1..Len(bytes) |-> CodePointAt(bytes, i)], LAMBDA c : c # undefined)

-----------------------------------------------------------------------------
(* Core binary primitives.                                                 *)

\* A slip in the group width: each byte taken to contribute 8 bits.
ShiftStep_Eight(shift) == shift + 8

\* shift += 7
ShiftStep(shift) == shift + 7

\* One iteration of parse7BitInt's loop, then the rest of the loop.
RECURSIVE parse7BitIntLoop(_, _, _, _)
parse7BitIntLoop(data, offset, result, shift) ==
    LET b == At(data, offset)
        r == Or32(result, Shl32(AndMask(b, 127), shift))
    IN  IF AndMask(b, 128) = 0
        THEN Return(r, offset + 1)
        ELSE parse7BitIntLoop(data, offset + 1, r, ShiftStep(shift))

parse7BitInt(data, offset) == parse7BitIntLoop(data, offset, 0, 0)

\* The rest of parseBfString once the length prefix len is parsed: the
\* string decoded from the bytes after it, and the offset advanced by the
\* declared length.
StringAfter(data, len) ==
    Return(TextDecoderDecode(subarray(data, len.offset, len.offset + len.value)),
           len.offset + len.value)

parseBfString(data, offset) == StringAfter(data, parse7BitInt(data, offset))

\* DataView accessors (little-endian). Each accessor throws a RangeError
\* when the bytes it needs are not all inside the view: InView is the test it
\* makes, and the definitions below give its value when the test passes.
InView(data, offset, width) == offset >= 0 /\ offset + width <= Len(data)

\* The unsigned 16-bit integer at offset.
U16At(data, offset) == data[offset + 1] + 256 * data[offset + 2]

\* A signed integer from its high byte (sign-carrying) and the unsigned value
\* of the bytes below it, worth `unit`.
Signed(high, low, unit) ==
    IF high >= 128 THEN (high - 256) * unit + low ELSE high * unit + low

getInt16(data, offset) == Signed(data[offset + 2], data[offset + 1], 256)

getInt32(data, offset) ==
    Signed(data[offset + 4],
           data[offset + 1] + 256 * data[offset + 2] + 65536 * data[offset + 3],
           16777216)

\* An unsigned 32-bit integer is the pair <<high 16 bits, low 16 bits>>.
U32(n) == <<n \div 65536, n % 65536>>

getUint32(data, offset) == <<U16At(data, offset + 2), U16At(data, offset)>>

\* Number(dv.getBigInt64(offset, true)): the integer itself when its high
\* word only extends the sign of its low word; otherwise the pair of its
\* signed high word and unsigned low word (hi * 2^32 + lo, which Number()
\* rounds to 53 significant bits).
getBigInt64Number(data, offset) ==
    LET lo == getInt32(data, offset)
        hi == getInt32(data, offset + 4)
    IN  IF (hi = 0 /\ lo >= 0) \/ (hi = -1 /\ lo < 0) THEN [int64 |-> lo]
        ELSE [int64hi |-> hi, int64lo |-> getUint32(data, offset)]

\* An IEEE 754 binary32: sign bit, 8-bit biased exponent, 23-bit fraction.
getFloat32(data, offset) ==
    [sign |-> data[offset + 4] \div 128,
     exponent |-> (data[offset + 4] % 128) * 2 + (data[offset + 3] \div 128),
     fraction |-> (data[offset + 3] % 128) * 65536 + U16At(data, offset)]

\* An IEEE 754 binary64: sign bit, 11-bit biased exponent, 52-bit fraction
\* (its high 20 bits and its low 32 bits).
getFloat64(data, offset) ==
    [sign |-> data[offset + 8] \div 128,
     exponent |-> (data[offset + 8] % 128) * 16 + (data[offset + 7] \div 16),
     fractionHi |-> (data[offset + 7] % 16) * 65536 + U16At(data, offset + 4),
     fractionLo |-> getUint32(data, offset)]

\* A JavaScript value of a decoded field carries its type: a boolean, a
\* number that is an integer, undefined, or one of the records above.
Boolean(b) == [boolean |-> b]
Number(n) == [number |-> n]
Undefined == [undefined |-> TRUE]

readPrimitive(data, offset, primType) ==
    CASE primType = PRIM_BOOLEAN -> Return(Boolean(At(data, offset) # 0), offset + 1)
      [] primType = PRIM_BYTE    ->
            Return(IF At(data, offset) = undefined THEN Undefined
                   ELSE Number(At(data, offset)),
                   offset + 1)
      [] primType = PRIM_INT16   ->
            IF InView(data, offset, 2)
            THEN Return(Number(getInt16(data, offset)), offset + 2)
            ELSE Throw(RangeErrorMessage)
      [] primType = PRIM_INT32   ->
            IF InView(data, offset, 4)
            THEN Return(Number(getInt32(data, offset)), offset + 4)
            ELSE Throw(RangeErrorMessage)
      [] primType = PRIM_INT64   ->
            IF InView(data, offset, 8)
            THEN Return(getBigInt64Number(data, offset), offset + 8)
            ELSE Throw(RangeErrorMessage)
      [] primType = PRIM_SINGLE  ->
            IF InView(data, offset, 4)
            THEN Return(getFloat32(data, offset), offset + 4)
            ELSE Throw(RangeErrorMessage)
      [] primType = PRIM_DOUBLE  ->
            IF InView(data, offset, 8)
            THEN Return(getFloat64(data, offset), offset + 8)
            ELSE Throw(RangeErrorMessage)
      [] OTHER -> Throw("Unknown primitive type: "
                        \o (IF primType = undefined THEN "undefined"
                            ELSE ToString(primType)))

-----------------------------------------------------------------------------
(* Byte search helper.                                                     *)

\* The least element of a non-empty set of integers.
Least(S) == CHOOSE i \in S : \A k \in S : i <= k

\* Whether needle occurs in data at position i.
MatchesAt(data, needle, i) ==
    \A j \in 0..(Len(needle) - 1) : data[i + j + 1] = needle[j + 1]

\* The first i in start..data.length-needle.length at which needle occurs,
\* or -1: what the loop over i returns.
FirstOf(hits) == IF hits = {} THEN -1 ELSE Least(hits)

findBytes(data, needle, start) ==
    FirstOf({i \in start..(Len(data) - Len(needle)) : MatchesAt(data, needle, i)})

-----------------------------------------------------------------------------
(* Class finder.                                                           *)

\* null, and a value that is not null. A call that returns "a value or
\* null" returns Some(v) or null.
null == <<>>
Some(v) == <<v>>

\* The concatenation of a sequence of sequences.
RECURSIVE Concat(_)
Concat(seqs) ==
    IF Len(seqs) = 0 THEN <<>>
    ELSE IF Len(seqs) = 1 THEN seqs[1]
    ELSE Concat(SubSeq(seqs, 1, Len(seqs) \div 2))
         \o Concat(SubSeq(seqs, Len(seqs) \div 2 + 1, Len(seqs)))

\* The UTF-8 bytes of a code point of the Basic Multilingual Plane.
Utf8Bytes(c) ==
    IF c < 128 THEN <<c>>
    ELSE IF c < 2048 THEN <<192 + (c \div 64), 128 + (c % 64)>>
    ELSE <<224 + (c \div 4096), 128 + ((c \div 64) % 64), 128 + (c % 64)>>

\* new TextEncoder().encode(str)
TextEncoderEncode(str) == Concat([i \in 1..Len(str) |-> Utf8Bytes(str[i])])

\* str.endsWith(suffix)
endsWith(str, suffix) ==
    /\ Len(suffix) <= Len(str)
    /\ SubSeq(str, Len(str) - Len(suffix) + 1, Len(str)) = suffix

\* The loop reading all member names: count calls of parseBfString from
\* offset. Yields the names read and the offset after them.
RECURSIVE ReadMemberNames(_, _, _, _)

\* The rest of one iteration, for the name parseBfString returned.
PushMember(data, count, members, name) ==
    ReadMemberNames(data, name.offset, count - 1, Append(members, name.value))

ReadMemberNames(data, offset, count, members) ==
    IF count = 0 THEN [members |-> members, offset |-> offset]
    ELSE PushMember(data, count, members, parseBfString(data, offset))

\* The loop reading the additional type information of each tag, from member
\* i on: yields primTypes and the offset after the information.
RECURSIVE ReadTypeInfo(_, _, _, _, _)
ReadTypeInfo(data, offset, typeTags, i, primTypes) ==
    IF i > Len(typeTags) THEN [primTypes |-> primTypes, offset |-> offset]
    ELSE LET tag == typeTags[i]
         IN  IF tag = TAG_PRIMITIVE \/ tag = TAG_PRIMITIVE_ARRAY
             THEN ReadTypeInfo(data, offset + 1, typeTags, i + 1,
                               [primTypes EXCEPT ![i] = At(data, offset)])
             ELSE IF tag = TAG_CLASS
             THEN ReadTypeInfo(data, parseBfString(data, offset).offset + 4,
                               typeTags, i + 1, primTypes)
             ELSE IF tag = TAG_SYSTEM_CLASS
             THEN ReadTypeInfo(data, parseBfString(data, offset).offset,
                               typeTags, i + 1, primTypes)
             ELSE ReadTypeInfo(data, offset, typeTags, i + 1, primTypes)

\* The width of the window the back-walk searches before the class name.
BackWalkWindow == 50

\* The greatest element of a non-empty set of integers.
Greatest(S) == CHOOSE i \in S : \A k \in S : i >= k

\* Whether the back-walk stops at testPos: the length prefix read there is
\* that of a string inside the buffer that ends with className, and the
\* object id 4 bytes before it can be read (a read at a negative offset
\* throws inside the inner try, and the walk goes on from testPos - 1).
EndsInside(data, className, testLen) ==
    /\ testLen.offset + testLen.value <= Len(data)
    /\ endsWith(StringAfter(data, testLen).value, className)

IsAnchor(data, className, testPos) ==
    /\ EndsInside(data, className, parse7BitInt(data, testPos))
    /\ InView(data, testPos - 4, 4)

\* A slip in the direction of the walk: upwards from limit, so that it stops
\* at the lowest anchor.
ObjectIdAt_Lowest(data, anchors) ==
    IF anchors = {} THEN U32(0) ELSE getUint32(data, Least(anchors) - 4)

\* The back-walk to the object id: testPos runs from pos - 1 down to limit
\* and stops at the first anchor it meets, the highest one; without an
\* anchor the object id stays 0.
ObjectIdAt(data, anchors) ==
    IF anchors = {} THEN U32(0) ELSE getUint32(data, Greatest(anchors) - 4)

BackWalk(data, className, pos, limit) ==
    ObjectIdAt(data, {testPos \in limit..(pos - 1) : IsAnchor(data, className, testPos)})

\* A slip in the offsets: the library id after the type information is not
\* skipped.
ClassDefinition_NoLibraryId(data, className, pos, mc, names, typeTags, info) ==
    [className   |-> className,
     memberCount |-> mc,
     memberNames |-> names.members,
     typeTags    |-> typeTags,
     primTypes   |-> info.primTypes,
     dataOffset  |-> info.offset,
     objectId    |-> BackWalk(data, className, pos, Max(pos - BackWalkWindow, 0))]

\* The object findClassDefinition returns for the candidate at pos, from
\* what its loops have read.
ClassDefinition(data, className, pos, mc, names, typeTags, info) ==
    [className   |-> className,
     memberCount |-> mc,
     memberNames |-> names.members,
     typeTags    |-> typeTags,
     primTypes   |-> info.primTypes,
     dataOffset  |-> info.offset + 4,
     objectId    |-> BackWalk(data, className, pos, Max(pos - BackWalkWindow, 0))]

\* The try block from the type information on, the type tags being read.
ParseTypeInfo(data, className, pos, mc, names, typeTags) ==
    ClassDefinition(data, className, pos, mc, names, typeTags,
                    ReadTypeInfo(data, names.offset + mc, typeTags, 1,
                                 [i \in 1..mc |-> 0]))

\* The try block from the type tags on, the member names being read: one
\* byte (or undefined) is read per member.
ParseTypeTags(data, className, pos, mc, names) ==
    ParseTypeInfo(data, className, pos, mc, names,
                  [i \in 1..mc |-> At(data, names.offset + i - 1)])

\* The body of the try block for the candidate at pos, once the member count
\* and the first member name have been accepted.
ParseCandidate(data, className, pos, mc) ==
    ParseTypeTags(data, className, pos, mc,
                  ReadMemberNames(data, pos + Len(TextEncoderEncode(className)) + 4,
                                  mc, <<>>))

\* A slip in the checks: the member count is read and not compared.
AcceptsAfter_AnyCount(data, after, expectedFields) ==
    /\ InView(data, after, 4)
    /\ parseBfString(data, after + 4).value = expectedFields[1]

\* Whether the candidate at pos passes the checks of the try block (a member
\* count that cannot be read throws, which rejects the candidate as well).
AcceptsAfter(data, after, expectedFields) ==
    /\ InView(data, after, 4)
    /\ getUint32(data, after) = U32(Len(expectedFields))
    /\ parseBfString(data, after + 4).value = expectedFields[1]

AcceptsCandidate(data, className, expectedFields, pos) ==
    AcceptsAfter(data, pos + Len(TextEncoderEncode(className)), expectedFields)

\* The while loop of findClassDefinition, from pos on.
RECURSIVE FindClassLoop(_, _, _, _)

\* A slip in the resumption: after a rejected candidate the scan resumes
\* past the bytes of the class name, not one byte further.
TryCandidate_SkipMatch(data, className, expectedFields, found) ==
    IF found = -1 THEN null
    ELSE IF AcceptsCandidate(data, className, expectedFields, found)
    THEN Some(ParseCandidate(data, className, found, Len(expectedFields)))
    ELSE FindClassLoop(data, className, expectedFields,
                       found + Len(TextEncoderEncode(className)))

\* One iteration of the loop, for what findBytes returned.
TryCandidate(data, className, expectedFields, found) ==
    IF found = -1 THEN null
    ELSE IF AcceptsCandidate(data, className, expectedFields, found)
    THEN Some(ParseCandidate(data, className, found, Len(expectedFields)))
    ELSE FindClassLoop(data, className, expectedFields, found + 1)

FindClassLoop(data, className, expectedFields, pos) ==
    TryCandidate(data, className, expectedFields,
                 findBytes(data, TextEncoderEncode(className), pos))

findClassDefinition(data, className, expectedFields, start) ==
    FindClassLoop(data, className, expectedFields, start)

\* findClassIdInstance. Its loop jumps from one byte 0x01 to the next
\* (indexOf), from start on: it reaches a marker when its condition
\* pos < data.length - 9 held at start and one past every marker before it,
\* and it returns at the first marker reached that has 9 bytes inside the
\* buffer and the id metadataId 5 bytes on.
Reached(data, start, markers) ==
    {m \in markers :
        /\ start < Len(data) - 9
        /\ \A p \in markers : p < m => p + 1 < Len(data) - 9}

Hits(data, metadataId, reached) ==
    {m \in reached : m + 9 <= Len(data) /\ getUint32(data, m + 5) = metadataId}

AfterFirst(hits) == IF hits = {} THEN null ELSE Some(Least(hits) + 9)

findClassIdInstance(data, metadataId, start) ==
    AfterFirst(Hits(data, metadataId,
                    Reached(data, start,
                            {m \in start..(Len(data) - 1) : data[m + 1] = 1})))

\* The loop of findAllClassIdInstances, from pos on, with the results so far.
RECURSIVE FindAllLoop(_, _, _, _)

\* A slip in the collection: results.unshift in place of results.push.
PushInstance_Unshift(data, metadataId, results, offset) ==
    IF offset = null THEN results
    ELSE FindAllLoop(data, metadataId, offset[1], <<offset[1]>> \o results)

\* One iteration of the loop, for what findClassIdInstance returned.
PushInstance(data, metadataId, results, offset) ==
    IF offset = null THEN results
    ELSE FindAllLoop(data, metadataId, offset[1], Append(results, offset[1]))

FindAllLoop(data, metadataId, pos, results) ==
    PushInstance(data, metadataId, results, findClassIdInstance(data, metadataId, pos))

findAllClassIdInstances(data, metadataId, start) ==
    FindAllLoop(data, metadataId, start, <<>>)

-----------------------------------------------------------------------------
(* Helpers of the extraction functions.                                    *)

\* The IEEE 754 binary32 f is NaN, is an infinity.
IsNaN(f) == f.exponent = 255 /\ f.fraction # 0
IsInfinite(f) == f.exponent = 255 /\ f.fraction = 0

\* A finite binary32 is (-1)^sign * Significand * 2^Scale.
Significand(f) == IF f.exponent = 0 THEN f.fraction ELSE 8388608 + f.fraction
Scale(f) == IF f.exponent = 0 THEN -149 ELSE f.exponent - 150
SignedSignificand(f) == IF f.sign = 1 THEN -Significand(f) ELSE Significand(f)

\* Math.floor(x) of a finite binary32 x, an integer (\div rounds down).
MathFloor(f) ==
    IF Scale(f) >= 0 THEN SignedSignificand(f) * Pow2(Scale(f))
    ELSE IF -Scale(f) > 30
         THEN (IF f.sign = 1 /\ Significand(f) > 0 THEN -1 ELSE 0)
    ELSE SignedSignificand(f) \div Pow2(-Scale(f))

\* Math.round(x * 10) of a finite binary32 x: x * 10 is exact in a double,
\* and Math.round(y) is floor(y + 1/2).
MathRoundTimes10(f) ==
    IF Scale(f) >= 0 THEN 10 * SignedSignificand(f) * Pow2(Scale(f))
    ELSE IF -Scale(f) > 29 THEN 0
    ELSE (20 * SignedSignificand(f) + Pow2(-Scale(f))) \div Pow2(1 - Scale(f))

\* Math.round(x * 10) / 10: the double nearest to tenths / 10, or the NaN or
\* infinity that x is.
RoundToTenth(f) ==
    IF IsNaN(f) THEN [kind |-> "NaN", tenths |-> 0]
    ELSE IF IsInfinite(f)
         THEN [kind |-> IF f.sign = 1 THEN "-Infinity" ELSE "Infinity", tenths |-> 0]
    ELSE [kind |-> "finite", tenths |-> MathRoundTimes10(f)]

\* a % b of JavaScript for integers, b > 0: the sign of the dividend.
Remainder(a, b) == IF a >= 0 THEN a % b ELSE -((-a) % b)

\* String(n).padStart(2, '0')
PadStart2(n) == IF Len(ToString(n)) < 2 THEN "0" \o ToString(n) ELSE ToString(n)

\* formatDuration of an integer number of seconds (total = Math.floor(seconds)).
FormatTotal(total) ==
    LET h  == total \div 3600
        m  == Remainder(total, 3600) \div 60
        sc == Remainder(total, 60)
    IN  ToString(h) \o ":" \o PadStart2(m) \o ":" \o PadStart2(sc)

\* Numbers from 2^31 on are held as their digits to the base 10000, least
\* significant first, without leading zeros.
RECURSIVE BigOf(_)
BigOf(n) == IF n < 10000 THEN <<n>> ELSE <<n % 10000>> \o BigOf(n \div 10000)

\* m * limbs + carry, for 0 < m <= 2^16
RECURSIVE BigTimes(_, _, _)
BigTimes(limbs, m, carry) ==
    IF limbs = <<>> THEN (IF carry = 0 THEN <<>> ELSE BigOf(carry))
    ELSE <<(m * Head(limbs) + carry) % 10000>>
         \o BigTimes(Tail(limbs), m, (m * Head(limbs) + carry) \div 10000)

\* limbs * 2^e, 16 bits at a time
RECURSIVE BigShift(_, _)
BigShift(limbs, e) ==
    IF e <= 16 THEN BigTimes(limbs, Pow2(e), 0)
    ELSE BigShift(BigTimes(limbs, 65536, 0), e - 16)

\* The remainder by d of the number made of the digits from i up.
RECURSIVE RemAbove(_, _, _)
RemAbove(limbs, i, d) ==
    IF i > Len(limbs) THEN 0 ELSE (RemAbove(limbs, i + 1, d) * 10000 + limbs[i]) % d

\* limbs without leading zeros (zero is <<0>>).
RECURSIVE BigTrim(_)
BigTrim(limbs) ==
    IF Len(limbs) > 1 /\ limbs[Len(limbs)] = 0
    THEN BigTrim(SubSeq(limbs, 1, Len(limbs) - 1))
    ELSE limbs

\* The quotient and the remainder of limbs by d, 0 < d <= 3600.
BigDiv(limbs, d) ==
    [quotient  |-> BigTrim([i \in 1..Len(limbs) |->
                              (RemAbove(limbs, i + 1, d) * 10000 + limbs[i]) \div d]),
     remainder |-> RemAbove(limbs, 1, d)]

BigLess(a, b) ==
    \/ Len(a) < Len(b)
    \/ /\ Len(a) = Len(b)
       /\ \E i \in 1..Len(a) : a[i] < b[i] /\ \A j \in (i + 1)..Len(a) : a[j] = b[j]

\* limbs + 1
RECURSIVE BigSucc(_)
BigSucc(limbs) ==
    IF limbs = <<>> THEN <<1>>
    ELSE IF Head(limbs) < 9999 THEN <<Head(limbs) + 1>> \o Tail(limbs)
    ELSE <<0>> \o BigSucc(Tail(limbs))

\* The decimal digits of limbs.
RECURSIVE BigToString(_)
BigToString(limbs) ==
    IF Len(limbs) = 1 THEN ToString(limbs[1])
    ELSE BigToString(Tail(limbs))
         \o SubSeq(ToString(10000 + Head(limbs)), 2, 5)

\* Math.floor(total / 3600) for total = 3600 * q + r below 2^64, where the
\* division is that of IEEE 754 binary64: total / 3600 is rounded to 53
\* significant bits, to the nearest, ties to the even significand. With a
\* quotient q of L bits (2^42 <= q < 2^53) the doubles around q are
\* 2^(L-53) apart, and the rounded value reaches q + 1 when r/3600 is less
\* than half of that below q + 1, or exactly half and q + 1 is the even one
\* (always, unless L = 53 and q is even). A quotient below 2^42 is never
\* rounded up: the doubles there are less than 2/3600 apart.
HoursRoundUp(q, r) ==
    /\ ~BigLess(q, BigShift(<<1>>, 42))
    /\ LET k == Cardinality({j \in 43..53 : BigLess(q, BigShift(<<1>>, j))})
       IN  \/ (3600 - r) * Pow2(k) < 3600
           \/ (3600 - r) * Pow2(k) = 3600 /\ (k >= 2 \/ q[1] % 2 = 1)

\* formatDuration of a number of seconds total >= 0 held as its digits:
\* total % 3600 and total % 60 are exact, total / 3600 is rounded.
FormatBigTotal(qr) ==
    BigToString(IF HoursRoundUp(qr.quotient, qr.remainder) THEN BigSucc(qr.quotient)
                ELSE qr.quotient)
        \o ":" \o PadStart2(qr.remainder \div 60) \o ":" \o PadStart2(qr.remainder % 60)

\* formatDuration, for seconds below 2^64. A finite binary32 with a scale of
\* 8 or more is an integer that may not be below 2^31.
formatDuration(seconds) ==
    IF IsNaN(seconds) THEN "NaN:NaN:NaN"
    ELSE IF IsInfinite(seconds)
         THEN (IF seconds.sign = 1 THEN "-Infinity:NaN:NaN" ELSE "Infinity:NaN:NaN")
    ELSE IF Scale(seconds) >= 8 /\ seconds.sign = 0
         THEN FormatBigTotal(BigDiv(BigShift(BigOf(Significand(seconds)), Scale(seconds)),
                                    3600))
    ELSE FormatTotal(MathFloor(seconds))

-----------------------------------------------------------------------------
(* Extraction functions. Each returns a value or null, or throws.          *)

Returns(v) == [threw |-> FALSE, value |-> v]

\* The names of DIFFICULTY_NAMES.
DIFFICULTY_NAMES ==
    [id \in 0..4 |-> CASE id = 0 -> "Easy" [] id = 1 -> "Normal" [] id = 2 -> "Hard"
                       [] id = 3 -> "Brutal" [] id = 4 -> "Impossible"]

\* A slip in the lookup: DIFFICULTY_NAMES.at(difficultyId), which counts a
\* negative index from the end of the table.
difficultyName_At(difficultyId) ==
    IF difficultyId \in -5..4 THEN DIFFICULTY_NAMES[difficultyId % 5]
    ELSE "Unknown(" \o ToString(difficultyId) \o ")"

\* DIFFICULTY_NAMES[difficultyId] || `Unknown(${difficultyId})`
difficultyName(difficultyId) ==
    IF difficultyId \in DOMAIN DIFFICULTY_NAMES THEN DIFFICULTY_NAMES[difficultyId]
    ELSE "Unknown(" \o ToString(difficultyId) \o ")"

\* 'ProfileSaveHeader', 'UI.ProfileSaveHeader'
ProfileSaveHeader == <<80, 114, 111, 102, 105, 108, 101, 83, 97, 118, 101, 72, 101, 97, 100, 101, 114>>
UIProfileSaveHeader == <<85, 73, 46, 80, 114, 111, 102, 105, 108, 101, 83, 97, 118, 101, 72, 101, 97, 100, 101, 114>>

\* 'saveVersion', 'missionId', 'difficultyId', 'profileData',
\* 'specialHeaderValue', 'customMapName', 'completedCampaignLinks'
HeaderFields ==
    << <<115, 97, 118, 101, 86, 101, 114, 115, 105, 111, 110>>,
       <<109, 105, 115, 115, 105, 111, 110, 73, 100>>,
       <<100, 105, 102, 102, 105, 99, 117, 108, 116, 121, 73, 100>>,
       <<112, 114, 111, 102, 105, 108, 101, 68, 97, 116, 97>>,
       <<115, 112, 101, 99, 105, 97, 108, 72, 101, 97, 100, 101, 114, 86, 97, 108, 117, 101>>,
       <<99, 117, 115, 116, 111, 109, 77, 97, 112, 78, 97, 109, 101>>,
       <<99, 111, 109, 112, 108, 101, 116, 101, 100, 67, 97, 109, 112, 97, 105, 103, 110, 76, 105, 110, 107, 115>> >>

\* a || b for two values that are each an object or null.
OrElse(a, b) == IF a # null THEN a ELSE b

\* extractHeader once cdef is found (or null).
HeaderOf(datData, cdef) ==
    IF cdef = null THEN Returns(null)
    ELSE IF ~(/\ InView(datData, cdef[1].dataOffset, 4)
              /\ InView(datData, cdef[1].dataOffset + 4, 4)
              /\ InView(datData, cdef[1].dataOffset + 8, 4))
    THEN Throw(RangeErrorMessage)
    ELSE Returns(Some(
            [saveVersion    |-> getInt32(datData, cdef[1].dataOffset),
             missionId      |-> getInt32(datData, cdef[1].dataOffset + 4),
             missionIdName  |-> null,
             difficultyId   |-> getInt32(datData, cdef[1].dataOffset + 8),
             difficultyName |-> difficultyName(getInt32(datData, cdef[1].dataOffset + 8))]))

extractHeader(datData) ==
    HeaderOf(datData,
             OrElse(findClassDefinition(datData, ProfileSaveHeader, HeaderFields, 0),
                    findClassDefinition(datData, UIProfileSaveHeader, HeaderFields, 0)))

\* 'KilledEnemiesCounterSingleton'
KilledEnemiesCounterSingleton == <<75, 105, 108, 108, 101, 100, 69, 110, 101, 109, 105, 101, 115, 67, 111, 117, 110, 116, 101, 114, 83, 105, 110, 103, 108, 101, 116, 111, 110>>

\* 'value'
KilledEnemiesFields == << <<118, 97, 108, 117, 101>> >>

\* extractKilledEnemies once cdef is found (or null).
KilledEnemiesOf(data, cdef) ==
    IF cdef = null THEN Returns(null)
    ELSE IF ~InView(data, cdef[1].dataOffset, 4) THEN Throw(RangeErrorMessage)
    ELSE Returns(Some(getInt32(data, cdef[1].dataOffset)))

extractKilledEnemies(data) ==
    KilledEnemiesOf(data, findClassDefinition(data, KilledEnemiesCounterSingleton,
                                              KilledEnemiesFields, 0))

\* 'CurrentSessionTimeSingleton'
CurrentSessionTimeSingleton == <<67, 117, 114, 114, 101, 110, 116, 83, 101, 115, 115, 105, 111, 110, 84, 105, 109, 101, 83, 105, 110, 103, 108, 101, 116, 111, 110>>

\* 'nightIntensity', 'elapsedTime', 'elapsedTimeUnscaled',
\* 'previousFrameElapsedTime', 'timeSpeed', 'lastTimeSpeed', 'dirty'
SessionTimeFields ==
    << <<110, 105, 103, 104, 116, 73, 110, 116, 101, 110, 115, 105, 116, 121>>,
       <<101, 108, 97, 112, 115, 101, 100, 84, 105, 109, 101>>,
       <<101, 108, 97, 112, 115, 101, 100, 84, 105, 109, 101, 85, 110, 115, 99, 97, 108, 101, 100>>,
       <<112, 114, 101, 118, 105, 111, 117, 115, 70, 114, 97, 109, 101, 69, 108, 97, 112, 115, 101, 100, 84, 105, 109, 101>>,
       <<116, 105, 109, 101, 83, 112, 101, 101, 100>>,
       <<108, 97, 115, 116, 84, 105, 109, 101, 83, 112, 101, 101, 100>>,
       <<100, 105, 114, 116, 121>> >>

\* The object extractSessionTime returns, from the two floats it read.
SessionTime(elapsedTime, elapsedTimeUnscaled) ==
    [gameSeconds   |-> RoundToTenth(elapsedTime),
     realSeconds   |-> RoundToTenth(elapsedTimeUnscaled),
     gameFormatted |-> formatDuration(elapsedTime),
     realFormatted |-> formatDuration(elapsedTimeUnscaled)]

\* extractSessionTime once cdef is found (or null): nightIntensity is
\* skipped, then elapsedTime and elapsedTimeUnscaled are read.
SessionTimeOf(data, cdef) ==
    IF cdef = null THEN Returns(null)
    ELSE IF ~(/\ InView(data, cdef[1].dataOffset + 4, 4)
              /\ InView(data, cdef[1].dataOffset + 8, 4))
    THEN Throw(RangeErrorMessage)
    ELSE Returns(Some(SessionTime(getFloat32(data, cdef[1].dataOffset + 4),
                                  getFloat32(data, cdef[1].dataOffset + 8))))

extractSessionTime(data) ==
    SessionTimeOf(data, findClassDefinition(data, CurrentSessionTimeSingleton,
                                            SessionTimeFields, 0))

\* The loop `for (const name of expected) { day[name] = dv.getInt32(offset,
\* true); offset += 4; }`: whether every read is inside the view, and the
\* snapshot it builds then.
SnapshotInView(data, offset, expected) ==
    \A i \in 1..Len(expected) : InView(data, offset + 4 * (i - 1), 4)

ReadSnapshot(data, offset, expected) ==
    [name \in {expected[i] : i \in 1..Len(expected)} |->
        getInt32(data, offset + 4 * ((CHOOSE i \in 1..Len(expected) : expected[i] = name) - 1))]

\* A slip in the offsets: the last day is read where the current day is.
LedgerWithLastDay_SameDay(data, expected, cdef, cidOffset) ==
    IF cdef.objectId = U32(0) \/ cidOffset = null
    THEN Returns(Some([currentDay |-> ReadSnapshot(data, cdef.dataOffset, expected)]))
    ELSE IF ~SnapshotInView(data, cidOffset[1], expected) THEN Throw(RangeErrorMessage)
    ELSE Returns(Some([currentDay |-> ReadSnapshot(data, cdef.dataOffset, expected),
                       lastDay    |-> ReadSnapshot(data, cdef.dataOffset, expected)]))

\* The body shared, line for line, by extractResources and
\* extractUndeadResources: the ledger once its current day is read: the last day is added when the
\* object id is not 0 and a back-reference cidOffset was found.
LedgerWithLastDay(data, expected, cdef, cidOffset) ==
    IF cdef.objectId = U32(0) \/ cidOffset = null
    THEN Returns(Some([currentDay |-> ReadSnapshot(data, cdef.dataOffset, expected)]))
    ELSE IF ~SnapshotInView(data, cidOffset[1], expected) THEN Throw(RangeErrorMessage)
    ELSE Returns(Some([currentDay |-> ReadSnapshot(data, cdef.dataOffset, expected),
                       lastDay    |-> ReadSnapshot(data, cidOffset[1], expected)]))

\* The ledger once cdef is found (or null).
LedgerOf(data, expected, cdef) ==
    IF cdef = null THEN Returns(null)
    ELSE IF ~SnapshotInView(data, cdef[1].dataOffset, expected)
    THEN Throw(RangeErrorMessage)
    ELSE LedgerWithLastDay(data, expected, cdef[1],
            findClassIdInstance(data, cdef[1].objectId,
                                cdef[1].dataOffset + 4 * Len(expected)))

extractLedger(data, className, expected) ==
    LedgerOf(data, expected, findClassDefinition(data, className, expected, 0))

\* 'ResourcesStatisticContainer'
ResourcesStatisticContainer == <<82, 101, 115, 111, 117, 114, 99, 101, 115, 83, 116, 97, 116, 105, 115, 116, 105, 99, 67, 111, 110, 116, 97, 105, 110, 101, 114>>

\* 'foodByFarms', 'foodByFishers', 'foodByBerrypickers', 'wood',
\* 'treesCutted', 'treesPlanted', 'stone', 'iron', 'woodConsuming',
\* 'ironConsuming'
ResourcesFields ==
    << <<102, 111, 111, 100, 66, 121, 70, 97, 114, 109, 115>>,
       <<102, 111, 111, 100, 66, 121, 70, 105, 115, 104, 101, 114, 115>>,
       <<102, 111, 111, 100, 66, 121, 66, 101, 114, 114, 121, 112, 105, 99, 107, 101, 114, 115>>,
       <<119, 111, 111, 100>>,
       <<116, 114, 101, 101, 115, 67, 117, 116, 116, 101, 100>>,
       <<116, 114, 101, 101, 115, 80, 108, 97, 110, 116, 101, 100>>,
       <<115, 116, 111, 110, 101>>,
       <<105, 114, 111, 110>>,
       <<119, 111, 111, 100, 67, 111, 110, 115, 117, 109, 105, 110, 103>>,
       <<105, 114, 111, 110, 67, 111, 110, 115, 117, 109, 105, 110, 103>> >>

extractResources(data) == extractLedger(data, ResourcesStatisticContainer, ResourcesFields)

\* 'UndeadResourcesStatisticContainer'
UndeadResourcesStatisticContainer == <<85, 110, 100, 101, 97, 100, 82, 101, 115, 111, 117, 114, 99, 101, 115, 83, 116, 97, 116, 105, 115, 116, 105, 99, 67, 111, 110, 116, 97, 105, 110, 101, 114>>

\* 'zombiesByBurial', 'zombiesByCorpses', 'deathMetal', 'spirit', 'bones'
UndeadResourcesFields ==
    << <<122, 111, 109, 98, 105, 101, 115, 66, 121, 66, 117, 114, 105, 97, 108>>,
       <<122, 111, 109, 98, 105, 101, 115, 66, 121, 67, 111, 114, 112, 115, 101, 115>>,
       <<100, 101, 97, 116, 104, 77, 101, 116, 97, 108>>,
       <<115, 112, 105, 114, 105, 116>>,
       <<98, 111, 110, 101, 115>> >>

extractUndeadResources(data) ==
    extractLedger(data, UndeadResourcesStatisticContainer, UndeadResourcesFields)

\* The loop over the members shared by extractAchievements (over expected)
\* and readWaveFields (over cdef.memberNames): from member i on, stop at the
\* first tag that is not TAG_PRIMITIVE, else read the member with its own
\* primitive type and store it under its name (a later store under the same
\* name replaces the earlier one). Yields the object built, or the throw of
\* readPrimitive.
RECURSIVE ReadPrimitiveMembers(_, _, _, _, _, _)

\* The rest of one iteration, for what readPrimitive returned or threw.
StoreMember(data, cdef, names, i, object, r) ==
    IF r.threw THEN r
    ELSE ReadPrimitiveMembers(data, r.offset, cdef, names, i + 1,
                              (names[i] :> r.value) @@ object)

\* A slip in the loop: `continue` in place of `break`, so that the members
\* after one that is no primitive are read as well.
ReadPrimitiveMembers_Continue(data, offset, cdef, names, i, object) ==
    IF i > Len(names) THEN Returns(object)
    ELSE IF cdef.typeTags[i] # TAG_PRIMITIVE
    THEN ReadPrimitiveMembers(data, offset, cdef, names, i + 1, object)
    ELSE StoreMember(data, cdef, names, i, object,
                     readPrimitive(data, offset, cdef.primTypes[i]))

ReadPrimitiveMembers(data, offset, cdef, names, i, object) ==
    IF i > Len(names) THEN Returns(object)
    ELSE IF cdef.typeTags[i] # TAG_PRIMITIVE THEN Returns(object)
    ELSE StoreMember(data, cdef, names, i, object,
                     readPrimitive(data, offset, cdef.primTypes[i]))

\* 'AchievementsSaveData'
AchievementsSaveData == <<65, 99, 104, 105, 101, 118, 101, 109, 101, 110, 116, 115, 83, 97, 118, 101, 68, 97, 116, 97>>

\* 'gatheredGold', 'lastGold', 'siegeMachineWasTrained',
\* 'powerUndeadUnitsWasTrained', 'portsDestroyed', 'marketPartsDestroyed',
\* 'trainedUnitTypes'
AchievementsFields ==
    << <<103, 97, 116, 104, 101, 114, 101, 100, 71, 111, 108, 100>>,
       <<108, 97, 115, 116, 71, 111, 108, 100>>,
       <<115, 105, 101, 103, 101, 77, 97, 99, 104, 105, 110, 101, 87, 97, 115, 84, 114, 97, 105, 110, 101, 100>>,
       <<112, 111, 119, 101, 114, 85, 110, 100, 101, 97, 100, 85, 110, 105, 116, 115, 87, 97, 115, 84, 114, 97, 105, 110, 101, 100>>,
       <<112, 111, 114, 116, 115, 68, 101, 115, 116, 114, 111, 121, 101, 100>>,
       <<109, 97, 114, 107, 101, 116, 80, 97, 114, 116, 115, 68, 101, 115, 116, 114, 111, 121, 101, 100>>,
       <<116, 114, 97, 105, 110, 101, 100, 85, 110, 105, 116, 84, 121, 112, 101, 115>> >>

\* What a function returns that returns the object its loop built: the
\* object, or the throw of the loop.
ReturnObject(read) == IF read.threw THEN read ELSE Returns(Some(read.value))

\* extractAchievements once cdef is found (or null).
AchievementsOf(data, cdef) ==
    IF cdef = null THEN Returns(null)
    ELSE ReturnObject(ReadPrimitiveMembers(data, cdef[1].dataOffset, cdef[1],
                                           AchievementsFields, 1, <<>>))

extractAchievements(data) ==
    AchievementsOf(data, findClassDefinition(data, AchievementsSaveData,
                                             AchievementsFields, 0))

\* readWaveFields: the object read, or null when readPrimitive threw.
ObjectOrNull(read) == IF read.threw THEN null ELSE Some(read.value)

readWaveFields(data, offset, cdef) ==
    ObjectOrNull(ReadPrimitiveMembers(data, offset, cdef, cdef.memberNames, 1, <<>>))

\* Whether a decoded value is truthy.
Truthy(v) ==
    CASE DOMAIN v = {"boolean"} -> v.boolean
      [] DOMAIN v = {"number"} -> v.number # 0
      [] DOMAIN v = {"undefined"} -> FALSE
      [] DOMAIN v = {"int64"} -> v.int64 # 0
      [] DOMAIN v = {"int64hi", "int64lo"} -> TRUE
      [] DOMAIN v = {"sign", "exponent", "fraction"} ->
            ~IsNaN(v) /\ ~(v.exponent = 0 /\ v.fraction = 0)
      [] DOMAIN v = {"sign", "exponent", "fractionHi", "fractionLo"} ->
            /\ ~(v.exponent = 2047 /\ (v.fractionHi # 0 \/ v.fractionLo # U32(0)))
            /\ ~(v.exponent = 0 /\ v.fractionHi = 0 /\ v.fractionLo = U32(0))

\* waves.filter(w => w[name]).length (a property the object lacks is
\* undefined, which is not truthy).
RECURSIVE CountTruthy(_, _)
CountTruthy(waves, name) ==
    IF waves = <<>> THEN 0
    ELSE (IF name \in DOMAIN Head(waves) /\ Truthy(Head(waves)[name]) THEN 1 ELSE 0)
         + CountTruthy(Tail(waves), name)

\* The waves pushed for the offsets of the back-references, in order.
RECURSIVE ReadWaves(_, _, _)
ReadWaves(data, offsets, cdef) ==
    IF offsets = <<>> THEN <<>>
    ELSE readWaveFields(data, Head(offsets), cdef) \o ReadWaves(data, Tail(offsets), cdef)

\* 'WaveHolderSaveData'
WaveHolderSaveData == <<87, 97, 118, 101, 72, 111, 108, 100, 101, 114, 83, 97, 118, 101, 68, 97, 116, 97>>

\* 'referenceId', 'waveId', 'mapped', 'fullySpawned', 'waveDestroyed', 'major'
WaveFields ==
    << <<114, 101, 102, 101, 114, 101, 110, 99, 101, 73, 100>>,
       <<119, 97, 118, 101, 73, 100>>,
       <<109, 97, 112, 112, 101, 100>>,
       <<102, 117, 108, 108, 121, 83, 112, 97, 119, 110, 101, 100>>,
       <<119, 97, 118, 101, 68, 101, 115, 116, 114, 111, 121, 101, 100>>,
       <<109, 97, 106, 111, 114>> >>

\* A slip in the return: the summary is built without the test
\* waves.length === 0.
WavesSummary_NoEmptyTest(waves) ==
    Returns(Some([total      |-> Len(waves),
                  destroyed  |-> CountTruthy(waves, WaveFields[5]),
                  majorWaves |-> CountTruthy(waves, WaveFields[6]),
                  details    |-> waves]))

\* What extractWaves returns for the waves it collected (WaveFields[5] is
\* 'waveDestroyed', WaveFields[6] is 'major').
WavesSummary(waves) ==
    IF Len(waves) = 0 THEN Returns(null)
    ELSE Returns(Some([total      |-> Len(waves),
                       destroyed  |-> CountTruthy(waves, WaveFields[5]),
                       majorWaves |-> CountTruthy(waves, WaveFields[6]),
                       details    |-> waves]))

\* The waves of the back-references, looked for when the object id is not 0.
BackReferenceWaves(data, cdef) ==
    IF cdef.objectId # U32(0)
    THEN ReadWaves(data, findAllClassIdInstances(data, cdef.objectId, cdef.dataOffset),
                   cdef)
    ELSE <<>>

\* A slip in the order: the first wave is pushed after the waves of the
\* back-references.
WavesOf_PrimaryLast(data, cdef) ==
    IF cdef = null THEN Returns(null)
    ELSE WavesSummary(BackReferenceWaves(data, cdef[1])
                      \o readWaveFields(data, cdef[1].dataOffset, cdef[1]))

\* extractWaves once cdef is found (or null): the first wave, read right
\* after the class definition, then the waves of the back-references.
WavesOf(data, cdef) ==
    IF cdef = null THEN Returns(null)
    ELSE WavesSummary(readWaveFields(data, cdef[1].dataOffset, cdef[1])
                      \o BackReferenceWaves(data, cdef[1]))

extractWaves(data) ==
    WavesOf(data, findClassDefinition(data, WaveHolderSaveData, WaveFields, 0))

-----------------------------------------------------------------------------
(* Main entry point: parseSaveFiles.                                       *)

\* The extraction functions in the order parseSaveFiles calls them, under
\* the names of the local variables that take their results (which are also
\* the tags of their error strings).
DecoderOrder ==
    <<"header", "enemiesKilled", "sessionTime", "resources", "undeadResources",
      "achievements", "waves">>

Decoders == {DecoderOrder[i] : i \in 1..Len(DecoderOrder)}

\* A slip in the calls: the header is looked for in the save bytes when the
\* .dat bytes hold none.
Extract_HeaderFromEither(decoder, saveData, datData) ==
    CASE decoder = "header"          ->
            IF extractHeader(datData) = Returns(null) THEN extractHeader(saveData)
            ELSE extractHeader(datData)
      [] decoder = "enemiesKilled"   -> extractKilledEnemies(saveData)
      [] decoder = "sessionTime"     -> extractSessionTime(saveData)
      [] decoder = "resources"       -> extractResources(saveData)
      [] decoder = "undeadResources" -> extractUndeadResources(saveData)
      [] decoder = "achievements"    -> extractAchievements(saveData)
      [] decoder = "waves"           -> extractWaves(saveData)

\* The call each try block makes: extractHeader on the .dat bytes, every
\* other extraction function on the save bytes.
Extract(decoder, saveData, datData) ==
    CASE decoder = "header"          -> extractHeader(datData)
      [] decoder = "enemiesKilled"   -> extractKilledEnemies(saveData)
      [] decoder = "sessionTime"     -> extractSessionTime(saveData)
      [] decoder = "resources"       -> extractResources(saveData)
      [] decoder = "undeadResources" -> extractUndeadResources(saveData)
      [] decoder = "achievements"    -> extractAchievements(saveData)
      [] decoder = "waves"           -> extractWaves(saveData)

\* A slip in the combinator: Promise.any in place of Promise.all, fulfilled
\* as soon as one read is fulfilled.
PromiseAll_Any(first, second) ==
    IF first = "rejected" /\ second = "rejected" THEN "rejected"
    ELSE IF first = "fulfilled" \/ second = "fulfilled" THEN "fulfilled"
    ELSE "pending"

\* Promise.all over the two reads: rejected as soon as one read is rejected,
\* fulfilled once both are fulfilled, pending otherwise.
PromiseAll(first, second) ==
    IF first = "rejected" \/ second = "rejected" THEN "rejected"
    ELSE IF first = "fulfilled" /\ second = "fulfilled" THEN "fulfilled"
    ELSE "pending"

\* A slip in the catch clause: errors.unshift in place of errors.push.
PushError_Unshift(errs, decoder, message) == <<decoder \o ": " \o message>> \o errs

\* errors.push('<decoder>: ' + e.message)
PushError(errs, decoder, message) == Append(errs, decoder \o ": " \o message)

\* Where control goes after the try/catch statement of a decoder: to the
\* next statement, whether the call returned or threw.
Successor(decoder) ==
    LET i == CHOOSE k \in 1..Len(DecoderOrder) : DecoderOrder[k] = decoder
    IN  IF i = Len(DecoderOrder) THEN "assemble" ELSE DecoderOrder[i + 1]

\* A slip in the error handling: one try block around all seven calls, so
\* that the first throw skips the calls after it.
AfterDecoder_Abort(decoder, outcome) ==
    IF outcome.threw THEN "assemble" ELSE Successor(decoder)

AfterDecoder(decoder, outcome) == Successor(decoder)

\* What the try block of a decoder leaves in the local variables: the
\* value returned is assigned, a throw assigns nothing.
Assigned(vals, decoder, outcome) ==
    IF outcome.threw THEN vals ELSE [vals EXCEPT ![decoder] = outcome.value]

\* A slip in the try block: a decoder that returned null is reported as an
\* error as well.
Caught_NotFound(errs, decoder, outcome) ==
    IF outcome.threw THEN PushError(errs, decoder, outcome.message)
    ELSE IF outcome.value = null THEN PushError(errs, decoder, "not found")
    ELSE errs

\* What the catch clause of a decoder leaves in errors.
Caught(errs, decoder, outcome) ==
    IF outcome.threw THEN PushError(errs, decoder, outcome.message) ELSE errs

\* A slip in the guards: truthiness in place of `!== null`, which drops a
\* kill count of 0.
IsSet_Truthy(field, v) == v # null /\ ~(field = "enemiesKilled" /\ v = <<0>>)

\* The tests guarding the fields of the result: `!== null` for the fields of
\* statistics, truthiness for header (an object or null).
IsSet(field, v) == v # null

\* The statistics object and the save entry assembled from the locals
\* (without lastModified, the file's time stamp).
Statistics(vals) ==
    [f \in {d \in Decoders \ {"header"} : IsSet(d, vals[d])} |-> vals[f][1]]

SaveEntry(fileName, fileSize, vals, errs) ==
    (IF Len(errs) # 0 THEN [errors |-> errs] ELSE <<>>)
    @@ (IF IsSet("header", vals["header"]) THEN [header |-> vals["header"][1]] ELSE <<>>)
    @@ [fileName   |-> fileName,
        fileSize   |-> fileSize,
        statistics |-> Statistics(vals)]

\* The object parseSaveFiles returns (without extractedAt, the clock's time).
Report(saveEntry) ==
    [extractorVersion |-> "browser-1.0",
     missionMap       |-> null,
     profiles         |-> <<[name        |-> "Uploaded Save",
                             isActive    |-> TRUE,
                             profileData |-> [completedMissionsData |-> <<>>,
                                              campaignProfiles      |-> <<>>],
                             saves       |-> <<saveEntry>>]>>]

-----------------------------------------------------------------------------
(* The files parseSaveFiles is given: streams in the wire format the class *)
(* finder reads (a class record is a record-type byte, a 4-byte object id,  *)
(* the length-prefixed class name, a 4-byte member count, the member names, *)
(* one tag byte per member, the additional information of the tags and a    *)
(* 4-byte library id, followed by the values of the members; a back-        *)
(* reference is the byte 0x01, a 4-byte object id and the 4-byte id of the  *)
(* class record it refers to, followed by the values).                      *)

\* The base-128 little-endian encoding of v >= 0: 7 bits per byte, low group
\* first, the high bit set on every byte but the last.
RECURSIVE Encode7Bit(_)
Encode7Bit(v) ==
    IF v < 128 THEN <<v>> ELSE <<128 + (v % 128)>> \o Encode7Bit(v \div 128)

\* The four bytes of a signed 32-bit integer, little-endian.
Int32LE(n) ==
    <<n % 256, (n \div 256) % 256, (n \div 65536) % 256, (n \div 16777216) % 256>>

LengthPrefixed(str) ==
    Encode7Bit(Len(TextEncoderEncode(str))) \o TextEncoderEncode(str)

ClassRecord(objectId, name, memberNames, tags, typeInfo, values) ==
    <<5>> \o Int32LE(objectId) \o LengthPrefixed(name)
          \o Int32LE(Len(memberNames))
          \o Concat([i \in 1..Len(memberNames) |-> LengthPrefixed(memberNames[i])])
          \o tags \o typeInfo \o Int32LE(2) \o values

BackReference(objectId, metadataId, values) ==
    <<1>> \o Int32LE(objectId) \o Int32LE(metadataId) \o values

\* n tags TAG_PRIMITIVE and the n primitive type codes given.
PrimitiveTags(n) == [i \in 1..n |-> TAG_PRIMITIVE]

\* 'DNO.' and 'UI.', the namespaces the class names are qualified with.
Qualified(className) == <<68, 78, 79, 46>> \o className

\* The additional information of a member of class type whose class name
\* announces more bytes than any file of the model holds: the offset of the
\* values it leads to lies beyond the end of the file.
OverlongClassName == Encode7Bit(20000)

\* The values of a record: 32-bit integers, binary32 numbers given by their
\* four bytes, booleans.
Int32Values(ns) == Concat([i \in 1..Len(ns) |-> Int32LE(ns[i])])

\* The .dat file: no header record; a header record (under either class
\* name) with a difficulty inside or outside the table; a header record
\* whose values lie beyond the end of the file.
HeaderRecord(name, difficultyId) ==
    ClassRecord(1, name, HeaderFields,
                <<TAG_PRIMITIVE, TAG_PRIMITIVE, TAG_PRIMITIVE, TAG_CLASS, TAG_PRIMITIVE,
                  TAG_STRING, TAG_SYSTEM_CLASS>>,
                <<PRIM_INT32, PRIM_INT32, PRIM_INT32>>
                    \o LengthPrefixed(<<80, 114, 111, 102, 105, 108, 101, 68, 97, 116, 97>>) \o Int32LE(2)
                    \o <<PRIM_INT32>> \o LengthPrefixed(<<76, 105, 115, 116>>),
                Int32Values(<<12, 3, difficultyId>>) \o <<9, 4, 0, 0, 0>>)

HeaderVariants ==
    { <<0, 1, 0, 0, 0>>,
      HeaderRecord(ProfileSaveHeader, 2),
      HeaderRecord(UIProfileSaveHeader, 7),
      ClassRecord(1, ProfileSaveHeader, HeaderFields,
                  <<TAG_CLASS, TAG_STRING, TAG_STRING, TAG_STRING, TAG_STRING, TAG_STRING,
                    TAG_STRING>>,
                  OverlongClassName, <<>>) }

\* The variants of each record of a save file, each with its kind: "absent"
\* (no bytes), "intact", or "damaged".

\* The kill counter: absent; present with the value 0 or 1234; present with
\* its value beyond the end of the file.
KilledVariants ==
    { <<"absent", <<>>>>,
      <<"intact",
        ClassRecord(3, Qualified(KilledEnemiesCounterSingleton), KilledEnemiesFields,
                    PrimitiveTags(1), <<PRIM_INT32>>, Int32LE(0))>>,
      <<"intact",
        ClassRecord(3, Qualified(KilledEnemiesCounterSingleton), KilledEnemiesFields,
                    PrimitiveTags(1), <<PRIM_INT32>>, Int32LE(1234))>>,
      <<"damaged",
        ClassRecord(3, Qualified(KilledEnemiesCounterSingleton), KilledEnemiesFields,
                    <<TAG_CLASS>>, OverlongClassName, <<>>)>> }

\* The session timer: absent; present (nightIntensity 0.5, elapsedTime 125.4,
\* elapsedTimeUnscaled 3661.0, as binary32 little-endian); present with
\* values beyond the end.
SessionVariants ==
    { <<"absent", <<>>>>,
      <<"intact",
        ClassRecord(4, Qualified(CurrentSessionTimeSingleton), SessionTimeFields,
                    PrimitiveTags(7),
                    <<PRIM_SINGLE, PRIM_SINGLE, PRIM_SINGLE, PRIM_SINGLE, PRIM_SINGLE,
                      PRIM_SINGLE, PRIM_BOOLEAN>>,
                    <<0, 0, 0, 63>> \o <<205, 204, 250, 66>> \o <<0, 208, 100, 69>>
                        \o <<0, 0, 0, 63>> \o <<0, 0, 0, 63>> \o <<0, 0, 0, 63>>
                        \o <<0>>)>>,
      <<"damaged",
        ClassRecord(4, Qualified(CurrentSessionTimeSingleton), SessionTimeFields,
                    <<TAG_CLASS, TAG_STRING, TAG_STRING, TAG_STRING, TAG_STRING,
                      TAG_STRING, TAG_STRING>>,
                    OverlongClassName, <<>>)>> }

\* The resource ledger: absent; present with the snapshot of the current day
\* and a back-reference holding the snapshot of the last day; present with
\* values beyond the end.
ResourcesVariants ==
    { <<"absent", <<>>>>,
      <<"intact",
        ClassRecord(7, Qualified(ResourcesStatisticContainer), ResourcesFields,
                    PrimitiveTags(10), [i \in 1..10 |-> PRIM_INT32],
                    Int32Values(<<10, 20, 30, 40, 50, 60, 70, 80, -90, -100>>))
            \o BackReference(8, 7, Int32Values(<<1, 2, 3, 4, 5, 6, 7, 8, -9, -10>>))>>,
      <<"damaged",
        ClassRecord(7, Qualified(ResourcesStatisticContainer), ResourcesFields,
                    <<TAG_CLASS>> \o [i \in 1..9 |-> TAG_STRING],
                    OverlongClassName, <<>>)>> }

\* The ledger of the undead: absent; present with the snapshot of the
\* current day alone; present with values beyond the end.
UndeadVariants ==
    { <<"absent", <<>>>>,
      <<"intact",
        ClassRecord(9, Qualified(UndeadResourcesStatisticContainer),
                    UndeadResourcesFields, PrimitiveTags(5),
                    [i \in 1..5 |-> PRIM_INT32], Int32Values(<<11, 0, 13, 14, 15>>))>>,
      <<"damaged",
        ClassRecord(9, Qualified(UndeadResourcesStatisticContainer),
                    UndeadResourcesFields, <<TAG_CLASS>> \o [i \in 1..4 |-> TAG_STRING],
                    OverlongClassName, <<>>)>> }

\* The achievements: absent; present, six primitive members and a member of
\* a system class; present with a member of an unknown primitive type.
AchievementsVariants ==
    { <<"absent", <<>>>>,
      <<"intact",
        ClassRecord(10, Qualified(AchievementsSaveData), AchievementsFields,
                    PrimitiveTags(6) \o <<TAG_SYSTEM_CLASS>>,
                    <<PRIM_INT32, PRIM_INT32, PRIM_BOOLEAN, PRIM_BOOLEAN, PRIM_INT16,
                      PRIM_BYTE>> \o LengthPrefixed(<<76, 105, 115, 116>>),
                    Int32Values(<<500, 25>>) \o <<1, 0, 3, 0, 2>> \o <<9, 11, 0, 0, 0>>)>>,
      <<"damaged",
        ClassRecord(10, Qualified(AchievementsSaveData), AchievementsFields,
                    PrimitiveTags(6) \o <<TAG_SYSTEM_CLASS>>,
                    <<PRIM_INT32, 5, PRIM_BOOLEAN, PRIM_BOOLEAN, PRIM_INT16, PRIM_BYTE>>
                        \o LengthPrefixed(<<76, 105, 115, 116>>),
                    Int32Values(<<500, 25>>) \o <<1, 0, 3, 0, 2>> \o <<9, 11, 0, 0, 0>>)>> }

\* The values of one wave.
WaveValues(referenceId, waveId, mapped, fullySpawned, waveDestroyed, major) ==
    Int32LE(referenceId) \o Int32LE(waveId) \o <<mapped, fullySpawned, waveDestroyed, major>>

\* The waves: absent; a wave record followed by two back-references; a wave
\* record no instance of which can be read (an unknown primitive type).
WavesVariants ==
    { <<"absent", <<>>>>,
      <<"intact",
        ClassRecord(20, Qualified(WaveHolderSaveData), WaveFields, PrimitiveTags(6),
                    <<PRIM_INT32, PRIM_INT32, PRIM_BOOLEAN, PRIM_BOOLEAN, PRIM_BOOLEAN,
                      PRIM_BOOLEAN>>,
                    WaveValues(100, 1, 1, 1, 1, 0))
            \o BackReference(21, 20, WaveValues(101, 2, 1, 1, 1, 1))
            \o BackReference(22, 20, WaveValues(102, 3, 1, 0, 0, 1))>>,
      <<"damaged",
        ClassRecord(20, Qualified(WaveHolderSaveData), WaveFields, PrimitiveTags(6),
                    <<5, PRIM_INT32, PRIM_BOOLEAN, PRIM_BOOLEAN, PRIM_BOOLEAN,
                      PRIM_BOOLEAN>>,
                    WaveValues(100, 1, 1, 1, 1, 0))>> }

\* The records of kind `kind` in a choice of one variant per record.
OfKind(choice, kind) == {i \in 1..Len(choice) : choice[i][1] = kind}

\* The largest number of records that are absent or damaged in a file that
\* has both absent and damaged records.
MaxMixedFaults == 2

\* The save files: a stream header, then one variant of each record. Every
\* file with any records damaged and none absent, every file with any
\* records absent and none damaged, and the files with both, up to
\* MaxMixedFaults faults.
SaveFileBytes ==
    { <<0, 1, 0, 0, 0, 255, 255, 255, 255, 1, 0, 0, 0, 0, 0, 0, 0>>
          \o c[1][2] \o c[2][2] \o c[3][2] \o c[4][2] \o c[5][2] \o c[6][2] :
        c \in {ch \in KilledVariants \X SessionVariants \X ResourcesVariants
                       \X UndeadVariants \X AchievementsVariants \X WavesVariants :
                  \/ OfKind(ch, "absent") = {}
                  \/ OfKind(ch, "damaged") = {}
                  \/ Cardinality(OfKind(ch, "absent") \cup OfKind(ch, "damaged"))
                        <= MaxMixedFaults} }

-----------------------------------------------------------------------------
(* The specification of parseSaveFiles.                                    *)

\* parseSaveFiles has been called with two files and has started both reads.
Init ==
    /\ cData = <<>>
    /\ cOffset = 0
    /\ cValue = <<>>
    /\ cOp = "idle"
    /\ cArg = 0
    /\ cRet = <<>>
    /\ saveBuffer = null
    /\ datBuffer = null
    /\ saveRead = "pending"
    /\ datRead = "pending"
    /\ readOrder = <<>>
    /\ pc = "await"
    /\ locals = [d \in Decoders |-> null]
    /\ errors = <<>>
    /\ ran = <<>>
    /\ resolved = null

\* The read of the save file is fulfilled with the bytes of the file.
SaveReadFulfilled ==
    /\ saveRead = "pending"
    /\ saveRead' = "fulfilled"
    /\ \E bytes \in SaveFileBytes : saveBuffer' = Some(bytes)
    /\ readOrder' = Append(readOrder, "save")
    /\ UNCHANGED <<datBuffer, datRead, pc, locals, errors, ran, resolved>>
    /\ UNCHANGED codecVars

\* The read of the save file fails: the file is unreadable.
SaveReadRejected ==
    /\ saveRead = "pending"
    /\ saveRead' = "rejected"
    /\ readOrder' = Append(readOrder, "save")
    /\ UNCHANGED <<saveBuffer, datBuffer, datRead, pc, locals, errors, ran, resolved>>
    /\ UNCHANGED codecVars

\* The read of the .dat file is fulfilled with the bytes of the file.
DatReadFulfilled ==
    /\ datRead = "pending"
    /\ datRead' = "fulfilled"
    /\ \E bytes \in HeaderVariants : datBuffer' = Some(bytes)
    /\ readOrder' = Append(readOrder, "dat")
    /\ UNCHANGED <<saveBuffer, saveRead, pc, locals, errors, ran, resolved>>
    /\ UNCHANGED codecVars

\* The read of the .dat file fails.
DatReadRejected ==
    /\ datRead = "pending"
    /\ datRead' = "rejected"
    /\ readOrder' = Append(readOrder, "dat")
    /\ UNCHANGED <<saveBuffer, datBuffer, saveRead, pc, locals, errors, ran, resolved>>
    /\ UNCHANGED codecVars

\* The await on Promise.all returns: parseSaveFiles goes on to the first
\* decoder, or rejects with the reason of the rejected read.
AwaitReturns ==
    /\ pc = "await"
    /\ PromiseAll(saveRead, datRead) # "pending"
    /\ pc' = IF PromiseAll(saveRead, datRead) = "fulfilled"
             THEN DecoderOrder[1] ELSE "rejected"
    /\ UNCHANGED <<saveBuffer, datBuffer, saveRead, datRead, readOrder, locals, errors,
                   ran, resolved>>
    /\ UNCHANGED codecVars

\* One try/catch statement: the call of a decoder, the assignment of what it
\* returned, or the push of its error.
TryCatch(decoder, outcome) ==
    /\ locals' = Assigned(locals, decoder, outcome)
    /\ errors' = Caught(errors, decoder, outcome)
    /\ pc' = AfterDecoder(decoder, outcome)

RunDecoder ==
    /\ pc \in Decoders
    /\ TryCatch(pc, Extract(pc, saveBuffer[1], datBuffer[1]))
    /\ ran' = Append(ran, pc)
    /\ UNCHANGED <<saveBuffer, datBuffer, saveRead, datRead, readOrder, resolved>>
    /\ UNCHANGED codecVars

\* The result object is assembled and parseSaveFiles resolves with it.
Assemble ==
    /\ pc = "assemble"
    /\ resolved' = Some(Report(SaveEntry("save", Len(saveBuffer[1]), locals, errors)))
    /\ pc' = "done"
    /\ UNCHANGED <<saveBuffer, datBuffer, saveRead, datRead, readOrder, locals, errors,
                   ran>>
    /\ UNCHANGED codecVars

Next ==
    \/ SaveReadFulfilled
    \/ SaveReadRejected
    \/ DatReadFulfilled
    \/ DatReadRejected
    \/ AwaitReturns
    \/ RunDecoder
    \/ Assemble

Spec == Init /\ [][Next]_vars

-----------------------------------------------------------------------------
(* Properties of parseSaveFiles.                                           *)

\* What a decoder returns or throws on the buffers that were read.
ResultOf(decoder) == Extract(decoder, saveBuffer[1], datBuffer[1])

\* The save entry of the result parseSaveFiles resolved with.
Entry == resolved[1].profiles[1].saves[1]

\* The field of a decoder in the result: Some(value) when present, else null.
OutputField(decoder) ==
    IF decoder = "header"
    THEN (IF "header" \in DOMAIN Entry THEN Some(Entry.header) ELSE null)
    ELSE IF decoder \in DOMAIN Entry.statistics THEN Some(Entry.statistics[decoder])
    ELSE null

\* str.startsWith(prefix)
startsWith(str, prefix) ==
    Len(prefix) <= Len(str) /\ SubSeq(str, 1, Len(prefix)) = prefix

\* The entries of the error list tagged with the name of a decoder.
ErrorsOf(decoder) == SelectSeq(errors, LAMBDA e : startsWith(e, decoder \o ": "))

\* The field of a decoder that returned r holds what it returned.
FieldAsReturned(decoder, r) == ~r.threw => OutputField(decoder) = r.value

\* C1: whichever decoders throw, every decoder is run (the decoders that
\* have run when control stands at a decoder are exactly those before it,
\* and all seven have run at the end), and the result holds for every
\* decoder that did not throw exactly what that decoder returns on the
\* buffers.
C1_ErrorIsolation ==
    /\ \A i \in 1..Len(DecoderOrder) :
          pc = DecoderOrder[i] => ran = SubSeq(DecoderOrder, 1, i - 1)
    /\ pc = "done" =>
          /\ ran = DecoderOrder
          /\ \A d \in Decoders : FieldAsReturned(d, ResultOf(d))

\* The header decoder and two more decoders threw, and the fields of
\* enemiesKilled and waves, which ran after the first throw, are in the result.
C1_Witness ==
    /\ pc = "done"
    /\ Len(errors) = 3
    /\ ErrorsOf("header") # <<>>
    /\ "enemiesKilled" \in DOMAIN Entry.statistics
    /\ "waves" \in DOMAIN Entry.statistics

\* The error string of a decoder that threw r, none for one that returned.
TaggedError(decoder, r) ==
    IF r.threw THEN <<decoder \o ": " \o r.message>> ELSE <<>>

\* C2: the error list holds exactly one string '<decoder>: <message>' for
\* each decoder that threw, with the message of what that decoder threw, in
\* the order header, enemiesKilled, sessionTime, resources, undeadResources,
\* achievements, waves.
C2_TaggedErrorsInOrder ==
    /\ Len(errors) <= Len(ran)
    /\ pc = "done" =>
          errors = Concat([i \in 1..Len(DecoderOrder) |->
                              TaggedError(DecoderOrder[i], ResultOf(DecoderOrder[i]))])

\* Two decoders threw, with different messages.
C2_Witness ==
    /\ pc = "done"
    /\ errors = <<"header: Offset is outside the bounds of the DataView",
                  "achievements: Unknown primitive type: 5">>

\* A decoder that threw r or did not find its record has an entry tagged
\* with its name in the error list.
FailureRecorded(decoder, r) ==
    (r.threw \/ r.value = null) => ErrorsOf(decoder) # <<>>

\* C3 as stated: every decoder that threw or did not find its record has an
\* entry tagged with its name in the error list.
C3_EveryFailureRecorded ==
    pc = "done" => \A d \in Decoders : FailureRecorded(d, ResultOf(d))

\* A decoder that threw r has exactly one entry in the error list; one that
\* returned has none, and no field in the result when it returned null.
OnlyThrowRecorded(decoder, r) ==
    /\ Len(ErrorsOf(decoder)) = (IF r.threw THEN 1 ELSE 0)
    /\ (~r.threw /\ r.value = null) => OutputField(decoder) = null

\* C3 as amended: a decoder that threw has exactly one entry tagged with its
\* name in the error list, and a decoder that returned, whether a value or
\* null for a record it did not find, has none; the field of a decoder that
\* returned null is left out of the result.
C3_OnlyThrowsRecorded ==
    pc = "done" => \A d \in Decoders : OnlyThrowRecorded(d, ResultOf(d))

\* The kill counter was not found and the session timer threw: one error,
\* that of the session timer, and no field enemiesKilled.
C3_Witness ==
    /\ pc = "done"
    /\ locals["enemiesKilled"] = null
    /\ errors = <<"sessionTime: Offset is outside the bounds of the DataView">>
    /\ "enemiesKilled" \notin DOMAIN Entry.statistics

\* The field of a decoder is present exactly when the decoder returned a
\* value other than null.
PresentIffDecoded(decoder, r) ==
    (OutputField(decoder) # null) <=> (~r.threw /\ r.value # null)

\* C4: in the result, the field of a decoder is present if and only if the
\* decoder returned a value other than null, and the field errors is
\* present if and only if the error list is not empty.
C4_FieldsPresentIffDecoded ==
    pc = "done" =>
        /\ \A d \in Decoders : PresentIffDecoded(d, ResultOf(d))
        /\ ("errors" \in DOMAIN Entry) <=> (errors # <<>>)
        /\ ("errors" \in DOMAIN Entry) => Entry.errors = errors

\* A decoded kill count of 0 is in the result, and no field errors.
C4_Witness ==
    /\ pc = "done"
    /\ "enemiesKilled" \in DOMAIN Entry.statistics
    /\ Entry.statistics.enemiesKilled = 0
    /\ "errors" \notin DOMAIN Entry

\* C5 as stated: once both reads have settled, parseSaveFiles has rejected
\* only if both reads were rejected.
C5_AbortsOnlyWhenBothUnreadable ==
    (pc = "rejected" /\ saveRead # "pending" /\ datRead # "pending")
        => (saveRead = "rejected" /\ datRead = "rejected")

\* C6: no decoder has started unless both reads are fulfilled.
C6_DecodingAfterBothReads ==
    (pc \in Decoders \/ ran # <<>>) => (saveRead = "fulfilled" /\ datRead = "fulfilled")

\* The read of the .dat file completed before the read of the save file,
\* and the decoders have run.
C6_Witness ==
    /\ readOrder = <<"dat", "save">>
    /\ ran = DecoderOrder

-----------------------------------------------------------------------------
(* The codec harness: a buffer and an offset are drawn, and one codec      *)
(* routine is applied to them.                                             *)

\* Bytes the harness builds its raw buffers from: a terminating and a
\* continuing 7-bit group with all payload bits clear (0x00, 0x80) and set
\* (0x7F, 0xFF), and a small length (0x02).
CodecBytes == {0, 2, 127, 128, 255}

\* The longest raw buffer of the harness.
MaxCodecLen == 5

RawBuffers == UNION {[1..n -> CodecBytes] : n \in 0..MaxCodecLen}

\* Integers of [0, 2^28): every combination of four 7-bit groups drawn from
\* 0, 1, 85 and 127, so that encodings of one to four bytes occur.
VarIntSamples ==
    {g[1] + 128 * g[2] + 16384 * g[3] + 2097152 * g[4] :
        g \in [1..4 -> {0, 1, 85, 127}]}

CodecInit ==
    /\ saveBuffer = null
    /\ datBuffer = null
    /\ saveRead = "none"
    /\ datRead = "none"
    /\ readOrder = <<>>
    /\ pc = "idle"
    /\ locals = <<>>
    /\ errors = <<>>
    /\ ran = <<>>
    /\ resolved = null
    /\ cOp = ""
    /\ cArg = 0
    /\ cRet = <<>>
    /\ \/ /\ cData \in RawBuffers
          /\ cOffset \in 0..(Len(cData) + 1)
          /\ cValue = <<>>
       \/ \E v \in VarIntSamples, pre \in {<<>>, <<128>>, <<255, 2>>},
                post \in {<<>>, <<128>>, <<255, 2>>} :
             /\ cData = pre \o Encode7Bit(v) \o post
             /\ cOffset = Len(pre)
             /\ cValue = <<v>>

CallParse7BitInt ==
    /\ cOp = ""
    /\ cOp' = "parse7BitInt"
    /\ cRet' = parse7BitInt(cData, cOffset)
    /\ UNCHANGED <<cData, cOffset, cValue, cArg>>
    /\ UNCHANGED mainVars

CallParseBfString ==
    /\ cOp = ""
    /\ cOp' = "parseBfString"
    /\ cRet' = parseBfString(cData, cOffset)
    /\ UNCHANGED <<cData, cOffset, cValue, cArg>>
    /\ UNCHANGED mainVars

CallReadPrimitive ==
    /\ cOp = ""
    /\ \E primType \in KnownPrimTypes \cup {0, 3} :
          /\ cArg' = primType
          /\ cRet' = readPrimitive(cData, cOffset, primType)
    /\ cOp' = "readPrimitive"
    /\ UNCHANGED <<cData, cOffset, cValue>>
    /\ UNCHANGED mainVars

CodecNext == CallParse7BitInt \/ CallParseBfString \/ CallReadPrimitive

SpecCodec == CodecInit /\ [][CodecNext]_vars

-----------------------------------------------------------------------------
(* Properties of the primitive codec, checked under SpecCodec.             *)

\* The encoded integer of the harness lies in [0, 2^28).
InVarIntRange(v) == v >= 0 /\ v < 268435456

\* C7: for every integer v in [0, 2^28), parse7BitInt applied at the start of
\* the base-128 little-endian encoding of v returns the value v and an offset
\* advanced by exactly the number of encoded bytes, whatever bytes precede
\* and follow the encoding.
C7_VarIntRoundTrip ==
    (cOp = "parse7BitInt" /\ cValue # <<>> /\ InVarIntRange(cValue[1]))
        => cRet = Return(cValue[1], cOffset + Len(Encode7Bit(cValue[1])))

\* A four-byte encoding of the largest integer of the range, after two bytes
\* of padding, has been parsed back.
C7_Witness ==
    /\ cOp = "parse7BitInt"
    /\ cValue = <<268435455>>
    /\ cOffset = 2
    /\ Len(Encode7Bit(cValue[1])) = 4
    /\ ~cRet.threw
    /\ cRet.value = 268435455
    /\ cRet.offset = 6

\* No byte at or after offset inside the buffer has a clear high bit: the
\* cursor runs past the end of the buffer before a terminating byte is read.
RunsPastEnd(data, offset) ==
    \A i \in offset..(Len(data) - 1) : data[i + 1] >= 128

\* C8: parse7BitInt fails (MalformedVarInt) whenever the cursor runs past the
\* end of the buffer before a byte with a clear high bit is read, a start
\* offset at or beyond the buffer end included; it returns no value then.
C8_FailsPastBufferEnd ==
    (cOp = "parse7BitInt" /\ RunsPastEnd(cData, cOffset)) => cRet.threw

\* The length prefix at offset ends inside the buffer and announces more
\* bytes than remain after it.
TruncatedString(data, offset) ==
    LET len == parse7BitInt(data, offset)
    IN  /\ ~RunsPastEnd(data, offset)
        /\ len.value > Len(data) - len.offset

\* C9: parseBfString fails (TruncatedString) whenever fewer bytes remain in
\* the buffer after the length prefix than the decoded length; it returns
\* neither a shortened string nor a next offset beyond the buffer end.
C9_FailsOnTruncatedString ==
    (cOp = "parseBfString" /\ TruncatedString(cData, cOffset)) => cRet.threw

\* The width in bytes of each known primitive subtype.
PrimWidth(primType) ==
    CASE primType \in {PRIM_BOOLEAN, PRIM_BYTE} -> 1
      [] primType = PRIM_INT16 -> 2
      [] primType \in {PRIM_INT32, PRIM_SINGLE} -> 4
      [] primType \in {PRIM_INT64, PRIM_DOUBLE} -> 8

\* C10: readPrimitive, for every known subtype, fails whenever offset plus
\* the subtype's width exceeds the buffer length; it returns no value decoded
\* from beyond the buffer end.
C10_FailsPastBufferEnd ==
    (/\ cOp = "readPrimitive"
     /\ cArg \in KnownPrimTypes
     /\ cOffset + PrimWidth(cArg) > Len(cData)) => cRet.threw

\* C11 as stated: the value parse7BitInt returns is an unsigned 32-bit
\* integer, for every byte sequence. (`result |= ... << shift` yields a signed
\* 32-bit integer, so the value is below 2^31 whatever the bytes: the claim
\* comes down to the value not being negative.)
C11_ValueIsUnsigned32 ==
    (cOp = "parse7BitInt" /\ ~cRet.threw) => cRet.value >= 0

\* C12 as stated: every read of the codec that returns, returns a next
\* offset strictly greater than the offset it was given.
C12_OffsetAdvances ==
    (cOp \in {"parse7BitInt", "parseBfString", "readPrimitive"} /\ ~cRet.threw)
        => cRet.offset > cOffset

-----------------------------------------------------------------------------
(* The finder harness: a buffer, a class name with its expected fields, an *)
(* object id and a start offset are drawn, and the class finder, a          *)
(* back-reference lookup or a ledger decoder is applied to them.            *)

\* A case of the harness: the buffer, the arguments of the calls, the start
\* offsets to call with, and what the buffer was built from: <<>>, or <<e>>
\* for a well-formed record before which no candidate passes the checks of
\* the class finder, e naming the position of the class name, the position of
\* the first value, the values of the leading primitive members and, for a
\* ledger, the integers of its two snapshots.
FinderCase(data, className, expectedFields, id, starts, built) ==
    [data |-> data, className |-> className, expectedFields |-> expectedFields,
     metadataId |-> U32(id), starts |-> starts, built |-> built]

\* The layout of a record type: its class name, its member names, its tags,
\* their additional information, the bytes of an instance and the values
\* those bytes hold.
Layout(className, memberNames, tags, typeInfo, bytes, values) ==
    [className |-> className, memberNames |-> memberNames, tags |-> tags,
     typeInfo |-> typeInfo, bytes |-> bytes, values |-> values]

KilledLayout ==
    Layout(KilledEnemiesCounterSingleton, KilledEnemiesFields, PrimitiveTags(1),
           <<PRIM_INT32>>, Int32LE(1234), <<Number(1234)>>)

UndeadLayout ==
    Layout(UndeadResourcesStatisticContainer, UndeadResourcesFields, PrimitiveTags(5),
           [i \in 1..5 |-> PRIM_INT32], Int32Values(<<11, 0, -13, 14, 65536>>),
           <<Number(11), Number(0), Number(-13), Number(14), Number(65536)>>)

ResourcesLayout ==
    Layout(ResourcesStatisticContainer, ResourcesFields, PrimitiveTags(10),
           [i \in 1..10 |-> PRIM_INT32],
           Int32Values(<<10, 20, 30, 40, 50, 60, 70, 80, -90, 1>>),
           <<Number(10), Number(20), Number(30), Number(40), Number(50), Number(60),
             Number(70), Number(80), Number(-90), Number(1)>>)

WavesLayout ==
    Layout(WaveHolderSaveData, WaveFields, PrimitiveTags(6),
           <<PRIM_INT32, PRIM_INT16, PRIM_BOOLEAN, PRIM_BYTE, PRIM_BOOLEAN, PRIM_BOOLEAN>>,
           Int32LE(100) \o <<44, 1>> \o <<1, 200, 0, 1>>,
           <<Number(100), Number(300), Boolean(TRUE), Number(200), Boolean(FALSE),
             Boolean(TRUE)>>)

\* The header: three integers, then members that are no primitives.
HeaderLayout ==
    Layout(ProfileSaveHeader, HeaderFields,
           <<TAG_PRIMITIVE, TAG_PRIMITIVE, TAG_PRIMITIVE, TAG_CLASS, TAG_PRIMITIVE,
             TAG_STRING, TAG_SYSTEM_CLASS>>,
           <<PRIM_INT32, PRIM_INT32, PRIM_INT32>>
               \o LengthPrefixed(<<80, 114, 111, 102, 105, 108, 101, 68, 97, 116, 97>>)
               \o Int32LE(2) \o <<PRIM_INT32>> \o LengthPrefixed(<<76, 105, 115, 116>>),
           Int32Values(<<12, 3, 2>>) \o <<9, 4, 0, 0, 0>>,
           <<Number(12), Number(3), Number(2)>>)

Layouts == {KilledLayout, UndeadLayout, ResourcesLayout, WavesLayout, HeaderLayout}

\* The bytes of a class record of a layout, under a qualified class name.
RecordOf(objectId, qualifier, layout) ==
    ClassRecord(objectId, qualifier \o layout.className, layout.memberNames,
                layout.tags, layout.typeInfo, layout.bytes)

\* The header of a stream, before its first record.
StreamHeader == <<0, 1, 0, 0, 0, 255, 255, 255, 255, 1, 0, 0, 0, 0, 0, 0, 0>>

\* A namespace of n bytes, its closing dot included.
Namespace(n) == [i \in 1..n |-> IF i = n THEN 46 ELSE 122]

\* A well-formed record after the bytes pre and before the bytes post. The
\* class name starts after the record-type byte, the object id, the one-byte
\* length prefix and the qualifier; the values are the last bytes of the
\* record.
WellFormed(pre, record, qualifier, layout, id, post, ledger) ==
    FinderCase(pre \o record \o post, layout.className, layout.memberNames, id,
               {0, 1, Len(pre) + 6 + Len(qualifier), Len(pre) + 7 + Len(qualifier)},
               <<[pos        |-> Len(pre) + 6 + Len(qualifier),
                  dataOffset |-> Len(pre) + Len(record) - Len(layout.bytes),
                  values     |-> layout.values,
                  ledger     |-> ledger]>>)

\* Bytes that hold a record in which the class finder must not find the
\* layout (or finds it without the harness saying where).
Faulty(data, layout) ==
    FinderCase(data, layout.className, layout.memberNames, 7, {0, 1}, <<>>)

\* A record of the layout with its last member name left out of, or its
\* first member name added once more to, the names it declares: the member
\* count is off by one, the first member name is the expected one.
WrongCount(layout, by) ==
    ClassRecord(7, Qualified(layout.className),
                IF by < 0 THEN SubSeq(layout.memberNames, 1, Len(layout.memberNames) - 1)
                ELSE layout.memberNames \o <<layout.memberNames[1]>>,
                layout.tags, layout.typeInfo, layout.bytes)

\* A record of the layout whose last two member names are exchanged.
Reordered(layout) ==
    ClassRecord(7, Qualified(layout.className),
                [i \in 1..Len(layout.memberNames) |->
                    IF i = Len(layout.memberNames) - 1
                    THEN layout.memberNames[Len(layout.memberNames)]
                    ELSE IF i = Len(layout.memberNames)
                    THEN layout.memberNames[Len(layout.memberNames) - 1]
                    ELSE layout.memberNames[i]],
                layout.tags, layout.typeInfo, layout.bytes)

\* The first bytes of a record of the layout: up to `more` bytes past its
\* class name (the member count takes 4 bytes, the first member name
\* follows it).
Truncated(layout, more) ==
    SubSeq(RecordOf(7, Qualified(<<>>), layout), 1,
           10 + Len(layout.className) + more)

\* The cases of the class finder.
RecordCases ==
    \* a record alone, in a stream, and followed by other bytes
    {WellFormed(pre, RecordOf(7, Qualified(<<>>), l), Qualified(<<>>), l, 7, post,
                <<>>) :
        pre \in {<<>>, StreamHeader}, post \in {<<>>, <<0, 1, 2>>}, l \in Layouts}
    \* the length prefix of the class name at the edges of the back-walk's
    \* window and beyond it; an unqualified class name
    \cup {WellFormed(StreamHeader, RecordOf(300, Namespace(n), l), Namespace(n), l, 300,
                     <<>>, <<>>) :
            n \in {0, BackWalkWindow - 2, BackWalkWindow - 1, BackWalkWindow},
            l \in {KilledLayout, WavesLayout}}
    \* an object id that reads as the length of a string ending with the
    \* class name: a second length prefix, below the first, in the window
    \cup {WellFormed(StreamHeader, RecordOf(8 + Len(l.className), Qualified(<<>>), l),
                     Qualified(<<>>), l, 8 + Len(l.className), <<>>, <<>>) :
            l \in {KilledLayout, UndeadLayout}}
    \* a record after bytes that hold the class name with another member
    \* count, by accident or in a record that declares another count
    \cup UNION {{WellFormed(pre, RecordOf(7, Qualified(<<>>), l), Qualified(<<>>),
                             l, 7, <<>>, <<>>) :
                    pre \in {l.className \o <<9, 9, 9, 9>>, WrongCount(l, 1),
                             WrongCount(l, -1)}} :
                l \in {UndeadLayout, WavesLayout}}
    \* a buffer that starts with the length prefix of the class name: there
    \* is no object id before it
    \cup {Faulty(SubSeq(RecordOf(7, <<>>, l), 6, Len(RecordOf(7, <<>>, l))), l) :
            l \in {KilledLayout, UndeadLayout}}
    \cup {Faulty(WrongCount(l, by), l) : by \in {-1, 1}, l \in {UndeadLayout, WavesLayout}}
    \cup {Faulty(Reordered(l), l) : l \in {UndeadLayout, WavesLayout}}
    \cup UNION {{Faulty(Truncated(l, more), l) :
                    more \in {0, 3, 4, 5, 5 + Len(l.memberNames[1])}} :
                l \in {KilledLayout, UndeadLayout}}

\* The integers of the snapshot of the last day in the cases of the ledgers.
LastDayOf(layout) == [i \in 1..Len(layout.memberNames) |-> 1000 + i]

\* The cases of the ledgers: a record with the object id 7 (or another),
\* then, right after it or after other bytes, a back-reference to it, then
\* possibly more bytes.
LedgerCases ==
    {WellFormed(pre, RecordOf(id, Qualified(<<>>), l), Qualified(<<>>), l, id,
                gap \o BackReference(id + 1, id, Int32Values(LastDayOf(l))) \o post,
                <<[i \in 1..Len(l.values) |-> l.values[i].number], LastDayOf(l)>>) :
        pre \in {<<>>, StreamHeader}, id \in {7, 513}, gap \in {<<>>, <<0, 9>>},
        post \in {<<>>, <<1, 1>>}, l \in {ResourcesLayout, UndeadLayout}}

\* The cases of the cut ledgers: the buffer ends after the back-reference
\* and the first kept integers of the last day, or inside the back-reference.
CutLedgerCases ==
    UNION {{WellFormed(pre, RecordOf(7, Qualified(<<>>), l), Qualified(<<>>), l, 7,
                       SubSeq(BackReference(8, 7, Int32Values(LastDayOf(l))), 1, kept),
                       <<>>) :
                pre \in {<<>>, StreamHeader},
                kept \in {8, 9, 10, 13, 4 * Len(l.memberNames) + 8}} :
            l \in {ResourcesLayout, UndeadLayout}}

\* The cases of the back-reference lookups: short buffers of one or two
\* back-references to the object 7, with and without values, after bytes
\* that are or are not the marker 0x01.
BackReferenceCases ==
    {FinderCase(pre \o BackReference(8, first, values) \o more, KilledEnemiesCounterSingleton,
                KilledEnemiesFields, 7,
                0..Len(pre \o BackReference(8, first, values) \o more), <<>>) :
        pre \in {<<>>, <<0>>, <<1>>, <<1, 0>>},
        first \in {6, 7},
        values \in {<<>>, <<0>>, <<1, 0>>},
        more \in {<<>>, <<1>>, BackReference(9, 7, <<>>), BackReference(9, 7, <<5, 1>>)}}

\* The waves of the wave list: a record and two back-references to it.
WaveCases ==
    {WellFormed(StreamHeader, RecordOf(20, Qualified(<<>>), WavesLayout), Qualified(<<>>),
                WavesLayout, 20,
                BackReference(21, 20, WaveValues(101, 2, 1, 1, 1, 1))
                    \o BackReference(22, 20, WaveValues(102, 3, 1, 0, 0, 1)) \o post,
                <<>>) :
        post \in {<<>>, <<0>>}}

\* 'List', the class of a member that is no primitive.
ListClass == <<76, 105, 115, 116>>

\* The achievements as the game writes them: six primitives, then a list.
AchievementsLayout ==
    Layout(AchievementsSaveData, AchievementsFields,
           PrimitiveTags(6) \o <<TAG_SYSTEM_CLASS>>,
           <<PRIM_INT32, PRIM_INT32, PRIM_BOOLEAN, PRIM_BOOLEAN, PRIM_INT16, PRIM_BYTE>>
               \o LengthPrefixed(ListClass),
           Int32Values(<<500, 25>>) \o <<1, 0, 3, 0, 2>> \o <<9, 11, 0, 0, 0>>,
           <<Number(500), Number(25), Boolean(TRUE), Boolean(FALSE), Number(3),
             Number(2)>>)

\* Achievements whose seven members are primitives, one of each width.
AllPrimitiveLayout ==
    Layout(AchievementsSaveData, AchievementsFields, PrimitiveTags(7),
           <<PRIM_INT32, PRIM_INT64, PRIM_BOOLEAN, PRIM_SINGLE, PRIM_DOUBLE, PRIM_BYTE,
             PRIM_INT16>>,
           Int32LE(-500) \o <<25, 0, 0, 0, 0, 0, 0, 0>> \o <<1>> \o <<0, 0, 0, 63>>
               \o <<0, 0, 0, 0, 0, 0, 240, 63>> \o <<2>> \o <<255, 255>>,
           <<Number(-500), [int64 |-> 25], Boolean(TRUE),
             [sign |-> 0, exponent |-> 126, fraction |-> 0],
             [sign |-> 0, exponent |-> 1023, fractionHi |-> 0, fractionLo |-> U32(0)],
             Number(2), Number(-1)>>)

\* Achievements whose first member is no primitive: primitives follow it.
NoLeadingPrimitiveLayout ==
    Layout(AchievementsSaveData, AchievementsFields,
           <<TAG_STRING>> \o PrimitiveTags(6),
           <<PRIM_INT32, PRIM_INT32, PRIM_BOOLEAN, PRIM_BOOLEAN, PRIM_INT16, PRIM_BYTE>>,
           <<6, 1, 65>> \o Int32Values(<<500, 25>>) \o <<1, 0, 3, 0, 2>>,
           <<>>)

\* Achievements whose fourth member is a class: three primitives before it,
\* three after it.
ClassInTheMiddleLayout ==
    Layout(AchievementsSaveData, AchievementsFields,
           PrimitiveTags(3) \o <<TAG_CLASS>> \o PrimitiveTags(3),
           <<PRIM_INT16, PRIM_BYTE, PRIM_INT32>> \o LengthPrefixed(ListClass)
               \o Int32LE(2) \o <<PRIM_INT32, PRIM_BOOLEAN, PRIM_BOOLEAN>>,
           <<44, 1, 200>> \o Int32LE(70000) \o <<9, 11, 0, 0, 0>>
               \o Int32LE(7) \o <<1, 1>>,
           <<Number(300), Number(200), Number(70000)>>)

AchievementsLayouts ==
    {AchievementsLayout, AllPrimitiveLayout, NoLeadingPrimitiveLayout,
     ClassInTheMiddleLayout}

\* The cases of the achievements: a record alone, in a stream, and followed
\* by other bytes.
AchievementsCases ==
    {WellFormed(pre, RecordOf(30, Qualified(<<>>), l), Qualified(<<>>), l, 30, post,
                <<>>) :
        pre \in {<<>>, StreamHeader}, post \in {<<>>, <<0, 1, 2>>},
        l \in AchievementsLayouts}

\* A wave of the wave list: its reference id, its wave id and its four
\* flags, as integers; its bytes under the primitive types of WavesLayout;
\* the values those bytes hold.
WaveBytes(w) == Int32LE(w[1]) \o <<w[2] % 256, w[2] \div 256>> \o SubSeq(w, 3, 6)

WaveDecoded(w) ==
    <<Number(w[1]), Number(w[2]), Boolean(w[3] # 0), Number(w[4]), Boolean(w[5] # 0),
      Boolean(w[6] # 0)>>

FirstWave == <<100, 300, 1, 200, 0, 1>>
SecondWave == <<101, 2, 1, 1, 1, 1>>
ThirdWave == <<102, 3, 0, 0, 1, 0>>

\* The wave holder with the first wave as its instance.
WaveListLayout ==
    Layout(WaveHolderSaveData, WaveFields, WavesLayout.tags, WavesLayout.typeInfo,
           WaveBytes(FirstWave), WaveDecoded(FirstWave))

\* A wave holder whose first member has a primitive type the code does not
\* know: no instance of it can be read.
UnreadableWaveLayout ==
    Layout(WaveHolderSaveData, WaveFields, WavesLayout.tags,
           <<5, PRIM_INT16, PRIM_BOOLEAN, PRIM_BYTE, PRIM_BOOLEAN, PRIM_BOOLEAN>>,
           WaveBytes(FirstWave), <<>>)

\* A wave holder whose first member is no primitive: every instance is read
\* as an object without properties.
NoPrimitiveWaveLayout ==
    Layout(WaveHolderSaveData, WaveFields, <<TAG_STRING>> \o PrimitiveTags(5),
           <<PRIM_INT16, PRIM_BOOLEAN, PRIM_BYTE, PRIM_BOOLEAN, PRIM_BOOLEAN>>,
           WaveBytes(FirstWave), <<>>)

\* The back-references of a wave list: refs[i] names the object referred to
\* and the wave.
WaveReferences(refs) ==
    Concat([i \in 1..Len(refs) |-> BackReference(50 + i, refs[i][1], WaveBytes(refs[i][2]))])

\* A wave holder in a stream, followed by back-references of which the last
\* `cut` bytes are missing and by the bytes post; waves are the waves the
\* buffer holds for the wave holder, in stream order.
WaveList(layout, id, refs, cut, post, waves) ==
    [WellFormed(StreamHeader, RecordOf(id, Qualified(<<>>), layout), Qualified(<<>>),
                layout, id,
                SubSeq(WaveReferences(refs), 1, Len(WaveReferences(refs)) - cut) \o post,
                <<>>)
        EXCEPT !.built = <<[pos        |-> @[1].pos,
                            dataOffset |-> @[1].dataOffset,
                            values     |-> @[1].values,
                            ledger     |-> <<>>,
                            waves      |-> waves]>>]

\* The cases of the wave lists.
WaveListCases ==
    \* the wave holder alone, and with two back-references
    {WaveList(WaveListLayout, 20, <<>>, 0, post, <<WaveDecoded(FirstWave)>>) :
        post \in {<<>>, <<0>>}}
    \cup {WaveList(WaveListLayout, id, << <<id, SecondWave>>, <<id, ThirdWave>> >>, 0,
                   post,
                   <<WaveDecoded(FirstWave), WaveDecoded(SecondWave),
                     WaveDecoded(ThirdWave)>>) :
            id \in {20, 513}, post \in {<<>>, <<0>>, <<1, 1, 1>>}}
    \* a back-reference to another object between the two
    \cup {WaveList(WaveListLayout, 20,
                   << <<20, ThirdWave>>, <<99, FirstWave>>, <<20, SecondWave>> >>, 0, <<>>,
                   <<WaveDecoded(FirstWave), WaveDecoded(ThirdWave),
                     WaveDecoded(SecondWave)>>)}
    \* the object id 0: back-references are not followed
    \cup {WaveList(WaveListLayout, 0, << <<0, SecondWave>> >>, 0, <<>>,
                   <<WaveDecoded(FirstWave)>>)}
    \* the last back-reference cut inside its wave id or its reference id
    \cup {WaveList(WaveListLayout, 20, << <<20, SecondWave>>, <<20, ThirdWave>> >>, cut,
                   <<>>, <<WaveDecoded(FirstWave), WaveDecoded(SecondWave)>>) :
            cut \in {5, 7, 9}}
    \* no instance can be read
    \cup {WaveList(UnreadableWaveLayout, 20, refs, 0, <<>>, <<>>) :
            refs \in {<<>>, << <<20, SecondWave>>, <<20, ThirdWave>> >>}}
    \* every instance is read as an object without properties
    \cup {WaveList(NoPrimitiveWaveLayout, 20, << <<20, SecondWave>> >>, 0, <<>>,
                   << <<>>, <<>> >>)}
    \* back-references without a wave holder
    \cup {Faulty(StreamHeader \o WaveReferences(<< <<20, SecondWave>> >>), WavesLayout)}

\* The header of a save with the difficulty id.
HeaderWith(difficultyId) ==
    [HeaderLayout EXCEPT
        !.bytes  = Int32Values(<<12, 3, difficultyId>>) \o <<9, 4, 0, 0, 0>>,
        !.values = <<Number(12), Number(3), Number(difficultyId)>>]

\* The difficulty ids of the headers: those of the table, their neighbours,
\* and the ends of the 32-bit signed range.
DifficultyIds == {-2147483647 - 1, -65536, -5, -1, 0, 1, 2, 3, 4, 5, 7, 255, 2147483647}

\* 'UI.', the namespace of the header's second name.
UINamespace == <<85, 73, 46>>

\* The cases of the headers: a header record under its plain name, under
\* 'UI.ProfileSaveHeader' and under 'DNO.ProfileSaveHeader'.
HeaderCases ==
    {WellFormed(StreamHeader, RecordOf(1, qualifier, HeaderWith(id)), qualifier,
                HeaderWith(id), 1, <<>>, <<>>) :
        qualifier \in {<<>>, UINamespace, Qualified(<<>>)}, id \in DifficultyIds}

\* A class named 'AA' with the member 'v': its name overlaps itself.
OverlapLayout ==
    Layout(<<65, 65>>, << <<118>> >>, PrimitiveTags(1), <<PRIM_INT32>>, Int32LE(77),
           <<Number(77)>>)

\* The cases of the overlaps: the class 'AA' under the qualified names
\* 'AAA', 'AAAA' and 'A.AA' (the name occurs one and two bytes before the
\* position that is followed by the member count, overlapping it or ending
\* right before it), after bytes that do or do not hold the name as well.
OverlapCases ==
    {WellFormed(pre, RecordOf(7, qualifier, OverlapLayout), qualifier, OverlapLayout, 7,
                post, <<>>) :
        pre \in {<<>>, <<65, 65>>, <<65, 65, 1, 0, 0, 0>>, StreamHeader},
        qualifier \in {<<>>, <<65>>, <<65, 65>>, <<65, 46>>},
        post \in {<<>>, <<65, 65>>}}

FinderCases ==
    RecordCases \cup LedgerCases \cup BackReferenceCases \cup WaveCases
        \cup AchievementsCases \cup WaveListCases \cup HeaderCases \cup OverlapCases
        \cup CutLedgerCases

FinderInit ==
    /\ saveBuffer = null
    /\ datBuffer = null
    /\ saveRead = "none"
    /\ datRead = "none"
    /\ readOrder = <<>>
    /\ pc = "idle"
    /\ locals = <<>>
    /\ errors = <<>>
    /\ ran = <<>>
    /\ resolved = null
    /\ cOp = ""
    /\ cRet = <<>>
    /\ \E c \in FinderCases :
          /\ cData = c.data
          /\ cArg = [className |-> c.className, expectedFields |-> c.expectedFields,
                     metadataId |-> c.metadataId]
          /\ cValue = c.built
          /\ cOffset \in c.starts

CallFindClassDefinition ==
    /\ cOp = ""
    /\ cOp' = "findClassDefinition"
    /\ cRet' = findClassDefinition(cData, cArg.className, cArg.expectedFields, cOffset)
    /\ UNCHANGED <<cData, cOffset, cValue, cArg>>
    /\ UNCHANGED mainVars

CallFindClassIdInstance ==
    /\ cOp = ""
    /\ cOp' = "findClassIdInstance"
    /\ cRet' = findClassIdInstance(cData, cArg.metadataId, cOffset)
    /\ UNCHANGED <<cData, cOffset, cValue, cArg>>
    /\ UNCHANGED mainVars

CallFindAllClassIdInstances ==
    /\ cOp = ""
    /\ cOp' = "findAllClassIdInstances"
    /\ cRet' = findAllClassIdInstances(cData, cArg.metadataId, cOffset)
    /\ UNCHANGED <<cData, cOffset, cValue, cArg>>
    /\ UNCHANGED mainVars

CallExtractResources ==
    /\ cOp = ""
    /\ cOp' = "extractResources"
    /\ cRet' = extractResources(cData)
    /\ UNCHANGED <<cData, cOffset, cValue, cArg>>
    /\ UNCHANGED mainVars

CallExtractUndeadResources ==
    /\ cOp = ""
    /\ cOp' = "extractUndeadResources"
    /\ cRet' = extractUndeadResources(cData)
    /\ UNCHANGED <<cData, cOffset, cValue, cArg>>
    /\ UNCHANGED mainVars

CallExtractAchievements ==
    /\ cOp = ""
    /\ cOp' = "extractAchievements"
    /\ cRet' = extractAchievements(cData)
    /\ UNCHANGED <<cData, cOffset, cValue, cArg>>
    /\ UNCHANGED mainVars

CallExtractWaves ==
    /\ cOp = ""
    /\ cOp' = "extractWaves"
    /\ cRet' = extractWaves(cData)
    /\ UNCHANGED <<cData, cOffset, cValue, cArg>>
    /\ UNCHANGED mainVars

CallExtractHeader ==
    /\ cOp = ""
    /\ cOp' = "extractHeader"
    /\ cRet' = extractHeader(cData)
    /\ UNCHANGED <<cData, cOffset, cValue, cArg>>
    /\ UNCHANGED mainVars

FinderNext ==
    \/ CallFindClassDefinition
    \/ CallFindClassIdInstance
    \/ CallFindAllClassIdInstances
    \/ CallExtractResources
    \/ CallExtractUndeadResources
    \/ CallExtractAchievements
    \/ CallExtractWaves
    \/ CallExtractHeader

SpecFinder == FinderInit /\ [][FinderNext]_vars

-----------------------------------------------------------------------------
(* The duration harness: a binary32 number of seconds that is not negative *)
(* is drawn, as the 4 bytes getFloat32 reads, and formatDuration is        *)
(* applied to it.                                                          *)

\* The little-endian bytes of a binary32.
Float32Bytes(sign, exponent, fraction) ==
    <<fraction % 256, (fraction \div 256) % 256,
      (exponent % 2) * 128 + fraction \div 65536, sign * 128 + exponent \div 2>>

\* Biased exponents: subnormals, fractions of a second, seconds up to
\* 2^24, and integers up to 2^64.
DurationExponents ==
    {0, 1, 126, 127, 128, 132, 133, 138, 143, 149, 150, 151, 157, 158, 173, 183, 184,
     185, 190}

\* Fractions: those of 125.4 (with the exponent 133) and 3661.0 (with 138)
\* among them.
DurationFractions == {0, 1, 4194304, 6362643, 6606848, 8047821, 8388607}

DurationInit ==
    /\ saveBuffer = null
    /\ datBuffer = null
    /\ saveRead = "none"
    /\ datRead = "none"
    /\ readOrder = <<>>
    /\ pc = "idle"
    /\ locals = <<>>
    /\ errors = <<>>
    /\ ran = <<>>
    /\ resolved = null
    /\ cOp = ""
    /\ cRet = <<>>
    /\ cArg = "seconds"
    /\ cValue = <<>>
    /\ cOffset = 0
    /\ \E e \in DurationExponents, f \in DurationFractions :
          cData = Float32Bytes(0, e, f)

CallFormatDuration ==
    /\ cOp = ""
    /\ cOp' = "formatDuration"
    /\ cRet' = formatDuration(getFloat32(cData, cOffset))
    /\ UNCHANGED <<cData, cOffset, cValue, cArg>>
    /\ UNCHANGED mainVars

SpecFormat == DurationInit /\ [][CallFormatDuration]_vars

-----------------------------------------------------------------------------
(* The loops of the scans, one iteration at a time: cOp names the function *)
(* that runs, cOffset is its loop variable (offset, i or pos), cValue      *)
(* holds its other locals and the number of iterations begun so far, and   *)
(* cRet is <<>> until the function returns, then <<v>> for the value v it  *)
(* returns. No function runs at first.                                     *)

LoopBytes == {0, 1, 128}
MaxLoopLen == 4

\* The short buffers of parse7BitInt and findBytes: buffers of continuation
\* bytes only among them.
LoopBuffers == UNION {[1..n -> LoopBytes] : n \in 0..MaxLoopLen}

Needles == {<<>>, <<1>>, <<0, 1>>, <<1, 1>>, <<128, 0, 1, 1, 0, 1>>}

Locals(start) ==
    [start |-> start, steps |-> 0, result |-> 0, shift |-> 0, found |-> FALSE,
     results |-> <<>>]

LoopInit ==
    /\ saveBuffer = null
    /\ datBuffer = null
    /\ saveRead = "none"
    /\ datRead = "none"
    /\ readOrder = <<>>
    /\ pc = "idle"
    /\ locals = <<>>
    /\ errors = <<>>
    /\ ran = <<>>
    /\ resolved = null
    /\ cOp = ""
    /\ cData = <<>>
    /\ cOffset = 0
    /\ cArg = <<>>
    /\ cValue = Locals(0)
    /\ cRet = <<>>

\* A call of one of the scans, with its arguments: the loop variable is set
\* to the start offset.
CallScan ==
    /\ cOp = ""
    /\ \/ /\ cOp' = "parse7BitInt"
          /\ cData' \in LoopBuffers
          /\ cOffset' \in 0..(Len(cData') + 1)
          /\ cArg' = <<>>
       \/ /\ cOp' = "findBytes"
          /\ cData' \in LoopBuffers
          /\ cOffset' \in 0..(Len(cData') + 1)
          /\ \E needle \in Needles : cArg' = [needle |-> needle]
       \/ /\ cOp' \in {"findClassDefinition", "findClassIdInstance",
                       "findAllClassIdInstances"}
          /\ \E c \in FinderCases :
                /\ cData' = c.data
                /\ cArg' = [className |-> c.className,
                            classNameBytes |-> TextEncoderEncode(c.className),
                            expectedFields |-> c.expectedFields,
                            metadataId |-> c.metadataId]
                /\ cOffset' \in c.starts
    /\ cValue' = Locals(cOffset')
    /\ cRet' = <<>>
    /\ UNCHANGED mainVars

\* Whether the function still runs and may begin one more iteration: the
\* count of iterations is capped above the bound claimed for it.
Running(fn) == cOp = fn /\ cRet = <<>> /\ cValue.steps <= Len(cData) + 3

\* A slip in the loop: the offset is not advanced.
Parse7BitIntStep_NoAdvance ==
    /\ Running("parse7BitInt")
    /\ LET b == At(cData, cOffset)
           r == Or32(cValue.result, Shl32(AndMask(b, 127), cValue.shift))
       IN  /\ cOffset' = cOffset
           /\ cValue' = [cValue EXCEPT !.steps = @ + 1, !.result = r,
                                       !.shift = ShiftStep(@)]
           /\ cRet' = IF AndMask(b, 128) = 0 THEN <<Return(r, cOffset + 1)>> ELSE <<>>
    /\ UNCHANGED <<cData, cOp, cArg>>
    /\ UNCHANGED mainVars

\* One iteration of the loop of parse7BitInt.
Parse7BitIntStep ==
    /\ Running("parse7BitInt")
    /\ LET b == At(cData, cOffset)
           r == Or32(cValue.result, Shl32(AndMask(b, 127), cValue.shift))
       IN  /\ cOffset' = cOffset + 1
           /\ cValue' = [cValue EXCEPT !.steps = @ + 1, !.result = r,
                                       !.shift = ShiftStep(@)]
           /\ cRet' = IF AndMask(b, 128) = 0 THEN <<Return(r, cOffset + 1)>> ELSE <<>>
    /\ UNCHANGED <<cData, cOp, cArg>>
    /\ UNCHANGED mainVars

\* One iteration of the outer loop of findBytes (its condition included):
\* the inner loop compares at most needle.length bytes.
FindBytesStep ==
    /\ Running("findBytes")
    /\ cValue' = [cValue EXCEPT !.steps = @ + 1]
    /\ IF ~(cOffset <= Len(cData) - Len(cArg.needle))
       THEN cRet' = <<-1>> /\ cOffset' = cOffset
       ELSE IF MatchesAt(cData, cArg.needle, cOffset)
       THEN cRet' = <<cOffset>> /\ cOffset' = cOffset
       ELSE cRet' = <<>> /\ cOffset' = cOffset + 1
    /\ UNCHANGED <<cData, cOp, cArg>>
    /\ UNCHANGED mainVars

\* The first half of an iteration of the loop of findClassDefinition:
\* pos = findBytes(data, classNameBytes, pos), and the return when it is -1.
FindClassDefinitionSearch ==
    /\ Running("findClassDefinition")
    /\ ~cValue.found
    /\ cOffset' = findBytes(cData, cArg.classNameBytes, cOffset)
    /\ cValue' = [cValue EXCEPT !.steps = @ + 1, !.found = cOffset' # -1]
    /\ cRet' = IF cOffset' = -1 THEN <<null>> ELSE <<>>
    /\ UNCHANGED <<cData, cOp, cArg>>
    /\ UNCHANGED mainVars

\* The second half: the try block on the candidate at pos. The candidate
\* that passes the checks is parsed in a bounded number of reads and
\* returned (cRet names its position), another one is left with pos++.
FindClassDefinitionTry ==
    /\ Running("findClassDefinition")
    /\ cValue.found
    /\ cValue' = [cValue EXCEPT !.found = FALSE]
    /\ IF AcceptsAfter(cData, cOffset + Len(cArg.classNameBytes), cArg.expectedFields)
       THEN cRet' = <<Some(cOffset)>> /\ cOffset' = cOffset
       ELSE cRet' = <<>> /\ cOffset' = cOffset + 1
    /\ UNCHANGED <<cData, cOp, cArg>>
    /\ UNCHANGED mainVars

\* data.indexOf(0x01, pos), pos >= 0
IndexOfMarker(data, pos) == FirstOf({m \in pos..(Len(data) - 1) : data[m + 1] = 1})

\* One iteration of the loop of findClassIdInstance (its condition included).
FindClassIdInstanceStep ==
    /\ Running("findClassIdInstance")
    /\ cValue' = [cValue EXCEPT !.steps = @ + 1]
    /\ IF ~(cOffset < Len(cData) - 9)
       THEN cRet' = <<null>> /\ cOffset' = cOffset
       ELSE LET pos == IndexOfMarker(cData, cOffset)
            IN  IF pos = -1
                THEN cRet' = <<null>> /\ cOffset' = pos
                ELSE IF pos + 9 <= Len(cData)
                        /\ getUint32(cData, pos + 5) = cArg.metadataId
                THEN cRet' = <<Some(pos + 9)>> /\ cOffset' = pos
                ELSE cRet' = <<>> /\ cOffset' = pos + 1
    /\ UNCHANGED <<cData, cOp, cArg>>
    /\ UNCHANGED mainVars

\* One iteration of the loop of findAllClassIdInstances.
FindAllClassIdInstancesStep ==
    /\ Running("findAllClassIdInstances")
    /\ LET offset == findClassIdInstance(cData, cArg.metadataId, cOffset)
       IN  IF offset = null
           THEN /\ cRet' = <<cValue.results>>
                /\ cOffset' = cOffset
                /\ cValue' = [cValue EXCEPT !.steps = @ + 1]
           ELSE /\ cRet' = <<>>
                /\ cOffset' = offset[1]
                /\ cValue' = [cValue EXCEPT !.steps = @ + 1,
                                            !.results = Append(@, offset[1])]
    /\ UNCHANGED <<cData, cOp, cArg>>
    /\ UNCHANGED mainVars

\* One iteration of the function that runs.
ScanStep ==
    \/ Parse7BitIntStep
    \/ FindBytesStep
    \/ FindClassDefinitionSearch
    \/ FindClassDefinitionTry
    \/ FindClassIdInstanceStep
    \/ FindAllClassIdInstancesStep

LoopNext == CallScan \/ ScanStep

\* A function that runs goes on running: its next iteration is taken.
SpecLoops == LoopInit /\ [][LoopNext]_vars /\ WF_vars(ScanStep)

-----------------------------------------------------------------------------
(* Properties of the class finder and of the back-reference lookups,       *)
(* checked under SpecFinder.                                               *)

\* The class definition findClassDefinition returned.
Found == cRet[1]

\* The positions from the start offset on at which the bytes of the class
\* name occur.
NameMatches ==
    {p \in cOffset..(Len(cData) - Len(TextEncoderEncode(cArg.className))) :
        MatchesAt(cData, TextEncoderEncode(cArg.className), p)}

\* The 4-byte little-endian member count after the class name at p is
\* inside the buffer and equals n.
CountIs(p, n) ==
    /\ InView(cData, p + Len(TextEncoderEncode(cArg.className)), 4)
    /\ getUint32(cData, p + Len(TextEncoderEncode(cArg.className))) = U32(n)

\* C13: every class definition findClassDefinition returns has a member
\* count and lists of member names, type tags and primitive types of the
\* length of expectedFields, and one is returned only if, at a match of the
\* class name, the member count that follows equals that length.
C13_CountMatchesExpected ==
    (cOp = "findClassDefinition" /\ cRet # null) =>
        /\ Found.memberCount = Len(cArg.expectedFields)
        /\ Len(Found.memberNames) = Len(cArg.expectedFields)
        /\ Len(Found.typeTags) = Len(cArg.expectedFields)
        /\ Len(Found.primTypes) = Len(cArg.expectedFields)
        /\ \E p \in NameMatches : CountIs(p, Len(cArg.expectedFields))

\* A record found after a record of the same class that declares one member
\* more.
C13_Witness ==
    /\ cOp = "findClassDefinition"
    /\ cRet # null
    /\ cValue # <<>>
    /\ cOffset = 0
    /\ \E p \in NameMatches : p < cValue[1].pos /\ CountIs(p, Len(cArg.expectedFields) + 1)
    /\ Found.dataOffset = cValue[1].dataOffset

\* C14 as stated: the member names of every class definition returned are
\* the expected fields, position by position.
C14_NamesMatchExpected ==
    (cOp = "findClassDefinition" /\ cRet # null) =>
        Found.memberNames = cArg.expectedFields

\* The values of sequential readPrimitive calls from offset on, one call for
\* each of the primitive types given.
RECURSIVE SequentialReads(_, _, _)
SequentialReads(data, offset, primTypes) ==
    IF primTypes = <<>> THEN <<>>
    ELSE <<readPrimitive(data, offset, Head(primTypes)).value>>
         \o SequentialReads(data, readPrimitive(data, offset, Head(primTypes)).offset,
                            Tail(primTypes))

\* C15: on a buffer that holds a well-formed record of a known type, with no
\* candidate passing the checks before it, findClassDefinition called at or
\* before the record returns a class definition whose dataOffset is the
\* position of the first value, and sequential readPrimitive calls from
\* dataOffset, with the primitive types of the definition, return the values
\* of the record.
C15_DataOffsetAtFirstValue ==
    (cOp = "findClassDefinition" /\ cValue # <<>> /\ cOffset <= cValue[1].pos) =>
        /\ cRet # null
        /\ Found.dataOffset = cValue[1].dataOffset
        /\ SequentialReads(cData, Found.dataOffset,
                           SubSeq(Found.primTypes, 1, Len(cValue[1].values)))
              = cValue[1].values

\* The kill counter with the value 1234 is found in a stream, and 1234 is
\* read at its dataOffset.
C15_Witness ==
    /\ cOp = "findClassDefinition"
    /\ cArg.className = KilledEnemiesCounterSingleton
    /\ cValue # <<>>
    /\ cValue[1].pos > 17
    /\ cRet # null
    /\ readPrimitive(cData, Found.dataOffset, PRIM_INT32) = Return(Number(1234), Len(cData))

\* The position of the candidate findClassDefinition accepted: the first
\* match of the class name that passes its checks.
CandidateAt ==
    Least({p \in NameMatches :
              AcceptsCandidate(cData, cArg.className, cArg.expectedFields, p)})

\* Position p holds a length prefix whose string lies in the buffer and ends
\* with the class name.
EndsWithClassName(p, len) ==
    /\ len.value >= 0
    /\ len.offset + len.value <= Len(cData)
    /\ endsWith(TextDecoderDecode(SubSeq(cData, len.offset + 1, len.offset + len.value)),
                cArg.className)

\* The positions of the 50 bytes before pos that hold such a length prefix.
PrefixesBefore(pos) ==
    {p \in Max(pos - 50, 0)..(pos - 1) : EndsWithClassName(p, parse7BitInt(cData, p))}

\* The object id of the definition for the length prefixes found: the
\* unsigned integer of the 4 bytes before the highest one that has 4 bytes
\* before it; 0 when there is no length prefix.
ObjectIdFor(prefixes, readable) ==
    /\ readable # {} => Found.objectId = getUint32(cData, Greatest(readable) - 4)
    /\ prefixes = {} => Found.objectId = U32(0)

\* C16: for every class definition returned for the candidate at pos, the
\* object id is the 4-byte little-endian unsigned integer before the highest
\* readable position of [max(pos - 50, 0), pos - 1] that holds a length
\* prefix whose string ends with the class name, and 0 if no position of
\* that window holds one.
C16_ObjectIdFromNearestPrefix ==
    (cOp = "findClassDefinition" /\ cRet # null) =>
        ObjectIdFor(PrefixesBefore(CandidateAt),
                    {p \in PrefixesBefore(CandidateAt) : p >= 4})

\* The object id 37 of a record of the kill counter under a qualified name:
\* its low byte reads as the length of a string that ends with the class
\* name, so that two positions of the window hold a length prefix, and the
\* object id is the one before the higher of them.
C16_Witness ==
    /\ cOp = "findClassDefinition"
    /\ cRet # null
    /\ Cardinality(PrefixesBefore(CandidateAt)) = 2
    /\ CandidateAt - 5 \in PrefixesBefore(CandidateAt)
    /\ CandidateAt - 9 \in PrefixesBefore(CandidateAt)
    /\ Found.objectId = U32(37)

\* The parse of the candidate that was accepted read no byte past the end
\* of the buffer: the type information, the last bytes it reads, ends inside
\* the buffer (the 4 bytes of the library id, which are skipped and not
\* read, end at dataOffset).
ParsedInsideBuffer == Found.dataOffset - 4 <= Len(cData)

\* C17 as stated: findClassDefinition returns a class definition or null, and
\* a candidate whose parse fails, a parse that reads past the end of the
\* buffer included, is rejected: no class definition is returned for it.
C17_FailedCandidateRejected ==
    cOp = "findClassDefinition" =>
        /\ cRet = null \/ Len(cRet) = 1
        /\ cRet # null => ParsedInsideBuffer

\* The positions m from the start offset on that hold the marker 0x01, have
\* 9 bytes inside the buffer and hold the object id at m + 5.
BackReferencesFrom ==
    {m \in cOffset..(Len(cData) - 1) :
        /\ cData[m + 1] = 1
        /\ m + 9 <= Len(cData)
        /\ getUint32(cData, m + 5) = cArg.metadataId}

\* C18 as stated: findClassIdInstance returns m + 9 for the smallest such m,
\* and null if and only if there is none.
C18_FirstBackReference ==
    cOp = "findClassIdInstance" =>
        cRet = (IF BackReferencesFrom = {} THEN null
                ELSE Some(Least(BackReferencesFrom) + 9))

\* The offset the scan for element i of the result started at.
ScanStart(i) == IF i = 1 THEN cOffset ELSE cRet[i - 1]

\* C19: findAllClassIdInstances returns a sequence of offsets that increases
\* strictly, each element being what findClassIdInstance returns for a scan
\* that starts at the element before it (at the start offset for the first).
C19_InstancesInStreamOrder ==
    cOp = "findAllClassIdInstances" =>
        /\ \A i \in 1..Len(cRet) :
              findClassIdInstance(cData, cArg.metadataId, ScanStart(i)) = Some(cRet[i])
        /\ \A i, j \in 1..Len(cRet) : i < j => cRet[i] < cRet[j]

\* Two back-references were found, the second where the buffer goes on
\* after the first.
C19_Witness ==
    /\ cOp = "findAllClassIdInstances"
    /\ Len(cRet) = 2
    /\ cRet[1] < cRet[2]
    /\ cData[cRet[1] - 8] = 1
    /\ cData[cRet[2] - 8] = 1

\* The snapshot that holds the integers given under the names given, in
\* order.
SnapshotOf(names, ints) ==
    [name \in {names[i] : i \in 1..Len(names)} |->
        ints[CHOOSE i \in 1..Len(names) : names[i] = name]]

\* The decoder of a ledger was applied to a buffer that holds a well-formed
\* record of its class, with a resolvable object id that is not 0, and one
\* back-reference to it after the values of the current day.
LedgerDecoded ==
    /\ cValue # <<>>
    /\ cValue[1].ledger # <<>>
    /\ \/ cOp = "extractResources" /\ cArg.className = ResourcesStatisticContainer
       \/ cOp = "extractUndeadResources"
            /\ cArg.className = UndeadResourcesStatisticContainer

\* C20: on such a buffer extractResources, and likewise
\* extractUndeadResources, returns currentDay with the integers at the
\* dataOffset of the record, in the order of the declared fields, and
\* lastDay with the integers 9 bytes after the marker of the
\* back-reference, in the same order.
C20_BothSnapshotsDecoded ==
    LedgerDecoded =>
        cRet = Returns(Some([currentDay |-> SnapshotOf(cArg.expectedFields, cValue[1].ledger[1]),
                             lastDay    |-> SnapshotOf(cArg.expectedFields, cValue[1].ledger[2])]))

\* The ledger of the undead with the object id 7 was decoded: -13 deathMetal
\* in the current day, 1005 bones in the last day.
C20_Witness ==
    /\ cOp = "extractUndeadResources"
    /\ LedgerDecoded
    /\ cArg.metadataId = U32(7)
    /\ ~cRet.threw
    /\ cRet.value # null
    /\ cRet.value[1].currentDay[UndeadResourcesFields[3]] = -13
    /\ cRet.value[1].lastDay[UndeadResourcesFields[5]] = 1005

-----------------------------------------------------------------------------
(* Properties of the extraction functions, checked under SpecFinder.       *)

\* The object whose properties are the first Len(values) names, each with
\* the value at its index.
ObjectOf(names, values) ==
    [name \in {names[i] : i \in 1..Len(values)} |->
        values[CHOOSE i \in 1..Len(values) : names[i] = name]]

\* The achievements records of the harness (their layouts name the values of
\* the members before the first one that is no primitive).
AchievementsRecord == cValue # <<>> /\ cArg.className = AchievementsSaveData

WaveListRecord == cValue # <<>> /\ "waves" \in DOMAIN cValue[1]

\* The buffer holds no wave holder at all, or a wave holder no instance of
\* which can be read.
NoWaveDecodes ==
    \/ findBytes(cData, WaveHolderSaveData, 0) = -1
    \/ WaveListRecord /\ cValue[1].waves = <<>>

\* C22: extractWaves never throws and never returns a summary whose total
\* is 0 or whose details are empty; on a buffer without a WaveHolderSaveData
\* definition, and on one whose every wave instance fails to read, it
\* returns null (not found).
C22_NoEmptySummary ==
    cOp = "extractWaves" =>
        /\ ~cRet.threw
        /\ cRet.value # null =>
              cRet.value[1].total >= 1 /\ Len(cRet.value[1].details) >= 1
        /\ NoWaveDecodes => cRet.value = null

\* A wave holder followed by two back-references, none of which can be
\* read: not found.
C22_Witness ==
    /\ cOp = "extractWaves"
    /\ WaveListRecord
    /\ cValue[1].waves = <<>>
    /\ Len(cData) > cValue[1].dataOffset + 10
    /\ findClassDefinition(cData, WaveHolderSaveData, WaveFields, 0) # null
    /\ cRet = Returns(null)

\* The number of entries of details whose property name is true.
CountTrue(details, name) ==
    Cardinality({i \in 1..Len(details) :
                    name \in DOMAIN details[i] /\ details[i][name] = Boolean(TRUE)})

\* The waves the buffer holds, as objects: an instance whose first member is
\* no primitive is an object without properties.
WaveObjects ==
    [i \in 1..Len(cValue[1].waves) |-> ObjectOf(WaveFields, cValue[1].waves[i])]

HeaderRecordRead ==
    cOp = "extractHeader" /\ cValue # <<>> /\ cArg.className = ProfileSaveHeader

\* The difficulty id a header record of the harness holds.
WrittenDifficultyId == cValue[1].values[3].number

\* 'Easy', 'Normal', 'Hard', 'Brutal', 'Impossible' for 0..4.
TableName(id) == <<"Easy", "Normal", "Hard", "Brutal", "Impossible">>[id + 1]

\* C24: the header decoded from a header record has the difficulty id of the
\* record, and its difficultyName is the name of the table when the id is
\* 0, 1, 2, 3 or 4 and the string 'Unknown(<id>)', with the id in decimal
\* and its sign, for every other id of the 32-bit signed range.
C24_DifficultyName ==
    HeaderRecordRead =>
        /\ ~cRet.threw
        /\ cRet.value # null
        /\ cRet.value[1].difficultyId = WrittenDifficultyId
        /\ cRet.value[1].difficultyName =
              IF WrittenDifficultyId \in {0, 1, 2, 3, 4} THEN TableName(WrittenDifficultyId)
              ELSE "Unknown(" \o ToString(WrittenDifficultyId) \o ")"

\* A header with the difficulty id -1 is decoded as 'Unknown(-1)'.
C24_Witness ==
    /\ HeaderRecordRead
    /\ WrittenDifficultyId = -1
    /\ ~cRet.threw
    /\ cRet.value # null
    /\ cRet.value[1].difficultyName = "Unknown(-1)"

-----------------------------------------------------------------------------
(* Properties of formatDuration, checked under SpecFormat.                 *)

\* The number of seconds drawn, and its floor T as digits.
SecondsDrawn == getFloat32(cData, 0)

FloorOfSeconds ==
    IF Scale(SecondsDrawn) >= 0
    THEN BigShift(BigOf(Significand(SecondsDrawn)), Scale(SecondsDrawn))
    ELSE IF -Scale(SecondsDrawn) > 30 THEN <<0>>
    ELSE BigOf(Significand(SecondsDrawn) \div Pow2(-Scale(SecondsDrawn)))

\* The two digits of a number below 100.
TwoDigits(n) == ToString(n \div 10) \o ToString(n % 10)

\* 'H:MM:SS' for T = 3600 * hours + rest, rest < 3600.
Clock(hours, rest) ==
    BigToString(hours) \o ":" \o TwoDigits(rest \div 60) \o ":" \o TwoDigits(rest % 60)

\* C25 as stated: for every number of seconds whose floor is an integer
\* T >= 0, formatDuration yields 'H:MM:SS' with H = T div 3600 in decimal
\* without padding, MM = (T mod 3600) div 60 and SS = T mod 60 in two
\* digits each, so that H * 3600 + MM * 60 + SS = T; 125.4 gives '0:02:05'
\* and 3661.0 gives '1:01:01'.
C25_ExactClock ==
    cOp = "formatDuration" =>
        /\ cRet = Clock(BigDiv(FloorOfSeconds, 3600).quotient,
                        BigDiv(FloorOfSeconds, 3600).remainder)
        /\ cData = <<205, 204, 250, 66>> => cRet = "0:02:05"
        /\ cData = <<0, 208, 100, 69>> => cRet = "1:01:01"

\* The same for the numbers of seconds below 2^53 (biased exponents up to
\* 179), where the division by 3600 loses nothing.
ExactClockBelow2To53 ==
    (SecondsDrawn.exponent <= 179) => C25_ExactClock

-----------------------------------------------------------------------------
(* Properties of the loops of the scans, checked under SpecLoops.          *)

\* What the function that ran returns according to the operator that
\* models it as a whole.
ReturnedByOperator ==
    CASE cOp = "parse7BitInt" -> parse7BitInt(cData, cValue.start)
      [] cOp = "findBytes" -> findBytes(cData, cArg.needle, cValue.start)
      [] cOp = "findClassDefinition" ->
            LET cdef == findClassDefinition(cData, cArg.className, cArg.expectedFields,
                                            cValue.start)
            IN  IF cdef = null THEN null
                ELSE Some(CHOOSE pos \in 0..Len(cData) :
                            cdef = Some(ParseCandidate(cData, cArg.className, pos,
                                                       Len(cArg.expectedFields))))
      [] cOp = "findClassIdInstance" ->
            findClassIdInstance(cData, cArg.metadataId, cValue.start)
      [] cOp = "findAllClassIdInstances" ->
            findAllClassIdInstances(cData, cArg.metadataId, cValue.start)

\* The loops, run one iteration at a time, return what the operators yield.
LoopsAgreeWithOperators == cRet # <<>> => cRet[1] = ReturnedByOperator

\* The iterations a scan may begin (the last one may only find the
\* condition of the loop false).
StepsBounded == cValue.steps <= Len(cData) + 1

\* C26: every scan terminates on every finite buffer: parse7BitInt (also on
\* a buffer of continuation bytes only), findBytes, findClassDefinition,
\* findClassIdInstance and findAllClassIdInstances each begin at most
\* data.length + 1 iterations, and each eventually returns.
C26_ScansTerminate == [](StepsBounded) /\ (cOp # "" ~> cRet # <<>>)

\* parse7BitInt has returned on a buffer of four continuation bytes, after
\* five iterations (the fifth reads past the end).
C26_Witness ==
    /\ cOp = "parse7BitInt"
    /\ cData = <<128, 128, 128, 128>>
    /\ cValue.start = 0
    /\ cValue.steps = 5
    /\ cRet # <<>>

-----------------------------------------------------------------------------
(* Independence of the two buffers, checked under Spec.                    *)

\* A primary buffer that holds a header record, and a secondary buffer that
\* holds one record of every statistic: the buffers of the extraction every
\* other one is compared with.
SaveWithHeader == StreamHeader \o HeaderRecord(ProfileSaveHeader, 4)

DatWithStatistics ==
    StreamHeader \o RecordOf(7, Qualified(<<>>), KilledLayout)
        \o (CHOOSE v \in SessionVariants : v[1] = "intact")[2]
        \o RecordOf(9, Qualified(<<>>), ResourcesLayout)
        \o RecordOf(11, Qualified(<<>>), UndeadLayout)
        \o RecordOf(30, Qualified(<<>>), AchievementsLayout)
        \o RecordOf(20, Qualified(<<>>), WaveListLayout)

\* The field of the result of an extraction whose decoder returned r or
\* threw: what r holds, or nothing.
FieldOfRun(r) == IF r.threw THEN null ELSE r.value

\* C27: the header of the result is the one of the extraction with the same
\* secondary buffer and the primary buffer SaveWithHeader, and every field
\* of the statistics is the one of the extraction with the same primary
\* buffer and the secondary buffer DatWithStatistics. Hence two extractions
\* that share the secondary buffer have the same header, and two that share
\* the primary buffer have the same enemiesKilled, sessionTime, resources,
\* undeadResources, achievements and waves.
C27_BuffersIndependent ==
    pc = "done" =>
        /\ OutputField("header")
              = FieldOfRun(Extract("header", SaveWithHeader, datBuffer[1]))
        /\ \A d \in Decoders \ {"header"} :
              OutputField(d) = FieldOfRun(Extract(d, saveBuffer[1], DatWithStatistics))

\* An extraction without a header (the .dat bytes hold none) and with a
\* kill count, and one with a header and without a kill count.
C27_Witness ==
    /\ pc = "done"
    /\ \/ /\ OutputField("header") = null
          /\ extractHeader(SaveWithHeader) # Returns(null)
          /\ OutputField("enemiesKilled") # null
       \/ /\ OutputField("header") # null
          /\ OutputField("enemiesKilled") = null
          /\ extractKilledEnemies(DatWithStatistics) = Returns(Some(1234))

-----------------------------------------------------------------------------
(* The order of the candidates of the class finder, checked under          *)
(* SpecFinder.                                                             *)

\* The candidate positions from the start offset on: the bytes of the class
\* name occur there, the member count that follows is the expected one and
\* the string after it is the first expected name.
PassingCandidates ==
    {p \in NameMatches :
        /\ CountIs(p, Len(cArg.expectedFields))
        /\ parseBfString(cData, p + Len(TextEncoderEncode(cArg.className)) + 4).value
              = cArg.expectedFields[1]}

\* C28: findClassDefinition returns the definition parsed at the lowest
\* position at or after fromOffset at which the bytes of the type name occur
\* and both the check of the field count and the check of the first field
\* name pass, and nothing when there is no such position: after a rejected
\* candidate at c the scan resumes at c + 1, so that a candidate that
\* overlaps a rejected one, or follows it at once, is not skipped.
C28_LowestPassingCandidate ==
    cOp = "findClassDefinition" =>
        cRet = IF PassingCandidates = {} THEN null
               ELSE Some(ParseCandidate(cData, cArg.className, Least(PassingCandidates),
                                        Len(cArg.expectedFields)))

\* The class 'AA' is found one byte after a rejected match of its name,
\* which it overlaps.
C28_Witness ==
    /\ cOp = "findClassDefinition"
    /\ cArg.className = <<65, 65>>
    /\ cRet # null
    /\ cValue # <<>>
    /\ Least(PassingCandidates) = cValue[1].pos
    /\ cValue[1].pos - 1 \in NameMatches
    /\ cValue[1].pos - 1 \notin PassingCandidates
    /\ Found.dataOffset = cValue[1].dataOffset

-----------------------------------------------------------------------------
(* The current day of a ledger whose last day cannot be read, checked      *)
(* under SpecFinder.                                                       *)

\* The class and the fields of the ledger the decoder called reads.
LedgerClass ==
    IF cOp = "extractResources" THEN ResourcesStatisticContainer
    ELSE UndeadResourcesStatisticContainer

LedgerFields ==
    IF cOp = "extractResources" THEN ResourcesFields ELSE UndeadResourcesFields

LedgerDefinition == findClassDefinition(cData, LedgerClass, LedgerFields, 0)

\* The decoder of a ledger was called, the class was found and the integers
\* of the current day all lie inside the buffer: the current day is decoded.
CurrentDayDecoded ==
    /\ cOp \in {"extractResources", "extractUndeadResources"}
    /\ LedgerDefinition # null
    /\ SnapshotInView(cData, LedgerDefinition[1].dataOffset, LedgerFields)

\* A back-reference is found whose integers do not all lie inside the
\* buffer.
LastDayCut ==
    /\ LedgerDefinition[1].objectId # U32(0)
    /\ findClassIdInstance(cData, LedgerDefinition[1].objectId,
                           LedgerDefinition[1].dataOffset + 4 * Len(LedgerFields)) # null
    /\ ~SnapshotInView(cData,
            findClassIdInstance(cData, LedgerDefinition[1].objectId,
                                LedgerDefinition[1].dataOffset + 4 * Len(LedgerFields))[1],
            LedgerFields)

\* C29: once the current day of a ledger is decoded, extractResources
\* (extractUndeadResources) returns a result that holds it as currentDay,
\* whether or not the integers of the last day can be read after a matching
\* back-reference: a failure to read the last day only leaves lastDay out.
C29_CurrentDayKept ==
    CurrentDayDecoded =>
        /\ ~cRet.threw
        /\ cRet.value # null
        /\ cRet.value[1].currentDay
              = ReadSnapshot(cData, LedgerDefinition[1].dataOffset, LedgerFields)
        /\ LastDayCut => DOMAIN cRet.value[1] = {"currentDay"}

\* What the decoders do: the current day is returned unless the last day is
\* cut, and then the call throws the RangeError of the read.
CurrentDayKeptUnlessCut ==
    CurrentDayDecoded =>
        IF LastDayCut THEN cRet = Throw(RangeErrorMessage)
        ELSE /\ ~cRet.threw
             /\ cRet.value # null
             /\ cRet.value[1].currentDay
                   = ReadSnapshot(cData, LedgerDefinition[1].dataOffset, LedgerFields)

\* A ledger of the undead whose last day is cut after its first integer.
CutLedgerReached ==
    /\ cOp = "extractUndeadResources"
    /\ CurrentDayDecoded
    /\ LastDayCut
    /\ Len(cData) = LedgerDefinition[1].dataOffset + 4 * Len(LedgerFields) + 13

-----------------------------------------------------------------------------
(* The data offset of the definitions returned, checked under SpecFinder.  *)

\* C30: every class definition that findClassDefinition returns has a
\* dataOffset that does not exceed the length of the buffer: no candidate is
\* accepted whose member names, type tags, type information or library id
\* extend past the end of the buffer.
C30_DataOffsetInsideBuffer ==
    (cOp = "findClassDefinition" /\ cRet # null) => Found.dataOffset <= Len(cData)

\* What the finder does guarantee: the member count of a definition
\* returned lies inside the buffer.
CountInsideBuffer ==
    (cOp = "findClassDefinition" /\ cRet # null) =>
        /\ PassingCandidates # {}
        /\ Least(PassingCandidates) + Len(TextEncoderEncode(cArg.className)) + 4
              <= Len(cData)

\* A definition is returned whose data offset lies beyond the buffer.
DataOffsetBeyondBuffer ==
    /\ cOp = "findClassDefinition"
    /\ cRet # null
    /\ Len(cData) = 49
    /\ Found.dataOffset = 54

=============================================================================
